---- MODULE Spec2Model ----
(***************************************************************************)
(* KeyBlocker: the keyboard interception engine (keyboard.c of the tray    *)
(* build), its settings store (settings.c) and the part of the tray shell  *)
(* the engine talks to (tray.m).                                           *)
(*                                                                         *)
(* The engine keeps one heap context, g_context, shared by the UI thread   *)
(* (the public operations) and the background thread that owns the event   *)
(* tap (keyboardCallback).  Every public operation and every callback      *)
(* invocation is one action.  The variable `last' records what the most    *)
(* recent call observed and produced (its arguments, the context it read,  *)
(* its return value, what it logged and which functions it called); it is  *)
(* not read by any action.                                                 *)
(***************************************************************************)
EXTENDS Integers, Sequences, FiniteSets, TLC

VARIABLES
    g_context,              \* kb_context_t *g_context: NoContext or the context record
    g_recording_callback,   \* static g_recording_callback
    settingsFile,           \* settings.conf: whether it exists, and its lines
    fsWritable,             \* whether fopen(path, "w") succeeds
    threads,                \* background threads: thread id -> position
    taps,                   \* event taps: tap id -> "none" | "enabled" | "disabled"
    nthreads,               \* number of threads created so far
    statusItem,             \* tray.m statusItem: FALSE is nil
    blockingSwitch,         \* tray.m blockingSwitch.state
    trayQueue,              \* blocks dispatch_async'ed to the main queue, in order
    running,                \* the process has not terminated
    installResult,          \* what the install call that created each thread returned
    recordButton,           \* tray.m recordButton: "nil" | "enabled" | "disabled"
    mainThreadSelectors,    \* updateShortcutButton selectors pending on the main thread
    ui,                     \* the operation the UI thread is in the middle of
    last                    \* observation of the most recent call

vars == <<g_context, g_recording_callback, settingsFile, fsWritable, threads,
          taps, nthreads, statusItem, blockingSwitch, trayQueue, running,
          installResult, recordButton, mainThreadSelectors, ui, last>>

(***************************************************************************)
(* Bounds of the model.                                                    *)
(***************************************************************************)
NumFlagBits == 2    \* raw flag words are built from the first NumFlagBits of FlagBitSeq
MaxKeyCode == 0     \* key codes 0..MaxKeyCode, and the default key code
MaxInstalls == 1    \* pthread_create succeeds at most this often in a run
MaxReinstalls == 2  \* the same, in the runs that tear down and install again
MaxQueue == 1       \* pending main-queue blocks
MaxFileLines == 2   \* lines of a settings file written by hand

(***************************************************************************)
(* Program constants.                                                      *)
(***************************************************************************)
NULL == "NULL"                      \* a null function pointer / a NULL return
NoContext == [allocated |-> FALSE]  \* g_context == NULL
NoFile == [exists |-> FALSE, lines |-> <<>>]
NoTap == 0                          \* a NULL CFMachPortRef / CFRunLoopSourceRef / no thread
NoEvent == [type |-> 0, flags |-> 0, keyCode |-> 0]
NoUi == [op |-> "idle"]             \* the UI thread is between two handlers

kCGEventFlagMaskAlphaShift == 65536
kCGEventFlagMaskShift == 131072
kCGEventFlagMaskControl == 262144
kCGEventFlagMaskAlternate == 524288
kCGEventFlagMaskCommand == 1048576
kCGEventFlagMaskNumericPad == 2097152

kCGEventKeyDown == 10
kCGEventKeyUp == 11
kCGEventFlagsChanged == 12
kCGEventSystemDefined == 14
kCGEventTapDisabledByTimeout == -2    \* 0xFFFFFFFE as a signed 32-bit value

DEFAULT_SHORTCUT_ENABLED == TRUE
DEFAULT_SHORTCUT_FLAGS == 1179648
DEFAULT_SHORTCUT_KEYCODE == 12
DEFAULT_BLOCKING_ENABLED == FALSE

KB_SUCCESS == "KB_SUCCESS"
KB_ERROR_PERMISSION_DENIED == "KB_ERROR_PERMISSION_DENIED"
KB_ERROR_EVENT_TAP_FAILED == "KB_ERROR_EVENT_TAP_FAILED"
KB_ERROR_ALREADY_STARTED == "KB_ERROR_ALREADY_STARTED"

UShortRange == 65536       \* unsigned short / CGKeyCode is 16 bits wide

recorded_shortcut_callback == "recorded_shortcut_callback"
Callbacks == {NULL, recorded_shortcut_callback}

(***************************************************************************)
(* Bit operations on flag words (CGEventFlags is an unsigned 64-bit word). *)
(***************************************************************************)
RECURSIVE BitAnd(_, _)
BitAnd(a, b) ==
    IF a = 0 \/ b = 0 THEN 0
    ELSE (a % 2) * (b % 2) + 2 * BitAnd(a \div 2, b \div 2)

RECURSIVE SumOf(_)
SumOf(S) ==
    IF S = {} THEN 0
    ELSE LET x == CHOOSE y \in S : TRUE IN x + SumOf(S \ {x})

(***************************************************************************)
(* Inputs.                                                                 *)
(***************************************************************************)
FlagBitSeq ==
    <<kCGEventFlagMaskShift, kCGEventFlagMaskAlphaShift, kCGEventFlagMaskCommand,
      kCGEventFlagMaskControl, kCGEventFlagMaskAlternate, kCGEventFlagMaskNumericPad>>

FlagBits == {FlagBitSeq[i] : i \in 1..NumFlagBits}

RawFlags == {SumOf(S) : S \in SUBSET FlagBits}

KeyCodes == (0..MaxKeyCode) \cup {DEFAULT_SHORTCUT_KEYCODE}

\* the flag words setShortcut is called with: any raw word, and the default
StoredFlags == RawFlags \cup {DEFAULT_SHORTCUT_FLAGS}

EventTypes ==
    {kCGEventKeyDown, kCGEventKeyUp, kCGEventFlagsChanged, kCGEventSystemDefined,
     kCGEventTapDisabledByTimeout}

\* The events the tap delivers.  The callback reads the flags and the key
\* code of key-down events only, so the other types carry one value each.
Events ==
    [type : {kCGEventKeyDown}, flags : RawFlags, keyCode : KeyCodes]
    \cup [type : EventTypes \ {kCGEventKeyDown}, flags : {0}, keyCode : {0}]

(***************************************************************************)
(* Settings store (settings.c).  The file is a sequence of key=value       *)
(* lines; a value is decimal text, a sequence of digits.  load_settings    *)
(* reads a line through a 256-byte buffer: of a line longer than 255       *)
(* characters, what lies beyond them is read by the next fgets as if it    *)
(* were a line of its own.                                                 *)
(***************************************************************************)
\* variant: only the last digit is written
DecimalLastDigit(n) == <<n % 10>>

\* fprintf's %d, %hu and %llu conversions of a non-negative number
RECURSIVE Decimal(_)
Decimal(n) ==
    IF n < 10 THEN <<n>> ELSE Append(Decimal(n \div 10), n % 10)

\* the number a run of digits denotes, as strtoull and atoi read it
RECURSIVE strtoull(_)
strtoull(text) ==
    IF text = <<>> THEN 0
    ELSE 10 * strtoull(SubSeq(text, 1, Len(text) - 1)) + text[Len(text)]

atoi(text) == strtoull(text)

\* a line "key=value" as fprintf writes it; nothing lies beyond the buffer
FileLine(k, v) == [key |-> k, val |-> Decimal(v), beyond |-> <<>>]

\* a line whose first 255 characters are "key=value" followed by padding and
\* whose remaining characters are those of the line tail
LongLine(k, v, tail) == [key |-> k, val |-> Decimal(v), beyond |-> <<tail>>]

\* what the successive fgets(line, sizeof(line), f) calls return
RECURSIVE fgets(_)
fgets(lines) ==
    IF lines = <<>> THEN <<>>
    ELSE <<[Head(lines) EXCEPT !.beyond = <<>>]>> \o Head(lines).beyond
             \o fgets(Tail(lines))

BoolInt(b) == IF b THEN 1 ELSE 0

\* the four fprintf lines of save_settings
SavedLines(s) ==
    <<FileLine("shortcut_enabled", BoolInt(s.shortcut_enabled)),
      FileLine("shortcut_flags", s.shortcut_flags),
      FileLine("shortcut_keycode", s.shortcut_keycode),
      FileLine("blocking_enabled", BoolInt(s.blocking_enabled))>>

\* save_settings: the file is rewritten unless it cannot be opened for writing
save_settings(s, file, writable) ==
    IF ~writable THEN file ELSE [exists |-> TRUE, lines |-> SavedLines(s)]

DefaultSettings ==
    [shortcut_enabled |-> DEFAULT_SHORTCUT_ENABLED,
     shortcut_flags   |-> DEFAULT_SHORTCUT_FLAGS,
     shortcut_keycode |-> DEFAULT_SHORTCUT_KEYCODE,
     blocking_enabled |-> DEFAULT_BLOCKING_ENABLED]

\* variant: the blocking state is restored from the file
ParseLineRestoringBlocking(s, line) ==
    IF line.key = "shortcut_enabled"
        THEN [s EXCEPT !.shortcut_enabled = (atoi(line.val) # 0)]
    ELSE IF line.key = "shortcut_flags"
        THEN [s EXCEPT !.shortcut_flags = strtoull(line.val)]
    ELSE IF line.key = "shortcut_keycode"
        THEN [s EXCEPT !.shortcut_keycode = atoi(line.val) % UShortRange]
    ELSE IF line.key = "blocking_enabled"
        THEN [s EXCEPT !.blocking_enabled = (atoi(line.val) # 0)]
    ELSE s

\* one iteration of the fgets loop of load_settings
ParseLine(s, line) ==
    IF line.key = "shortcut_enabled"
        THEN [s EXCEPT !.shortcut_enabled = (atoi(line.val) # 0)]
    ELSE IF line.key = "shortcut_flags"
        THEN [s EXCEPT !.shortcut_flags = strtoull(line.val)]
    ELSE IF line.key = "shortcut_keycode"
        THEN [s EXCEPT !.shortcut_keycode = atoi(line.val) % UShortRange]
    ELSE IF line.key = "blocking_enabled"
        THEN [s EXCEPT !.blocking_enabled = DEFAULT_BLOCKING_ENABLED]
    ELSE s

RECURSIVE ParseLines(_, _)
ParseLines(s, lines) ==
    IF lines = <<>> THEN s
    ELSE ParseLines(ParseLine(s, Head(lines)), Tail(lines))

load_settings(file) ==
    IF ~file.exists THEN DefaultSettings
    ELSE ParseLines(DefaultSettings, fgets(file.lines))

\* Settings files found at start-up: none, and one edited by hand after an
\* earlier run saved it while blocking was active.
InitialFiles ==
    {NoFile,
     [exists |-> TRUE,
      lines  |-> <<FileLine("theme", 7),
                   FileLine("shortcut_enabled", 1),
                   FileLine("shortcut_flags",
                            kCGEventFlagMaskShift + kCGEventFlagMaskAlphaShift),
                   FileLine("shortcut_keycode", UShortRange + DEFAULT_SHORTCUT_KEYCODE),
                   FileLine("blocking_enabled", 1)>>]}

(***************************************************************************)
(* The engine context (keyboard.c, kb_context_t).                          *)
(***************************************************************************)
\* calloc'ed context after loadDefaultKeyboardSettings
loadDefaultKeyboardSettings(file) ==
    LET s == load_settings(file) IN
    [allocated         |-> TRUE,
     eventTap          |-> NoTap,
     runLoopSource     |-> NoTap,
     enabled           |-> s.blocking_enabled,
     shortcutEnabled   |-> s.shortcut_enabled,
     recording         |-> FALSE,
     shortcutFlags     |-> s.shortcut_flags,
     shortcutKeyCode   |-> s.shortcut_keycode % UShortRange,
     recordingCallback |-> NULL,
     thread            |-> NoTap]

\* the app_settings_t that sync_and_save_settings hands to save_settings
sync_and_save_settings(ctx) ==
    [shortcut_enabled |-> ctx.shortcutEnabled,
     shortcut_flags   |-> ctx.shortcutFlags,
     shortcut_keycode |-> ctx.shortcutKeyCode % UShortRange,
     blocking_enabled |-> ctx.enabled]

\* flags & (Command | Shift | Alternate | Control)
PrimaryModifierMask ==
    kCGEventFlagMaskCommand + kCGEventFlagMaskShift
        + kCGEventFlagMaskAlternate + kCGEventFlagMaskControl

\* variant: the raw flag word is kept as it is
CleanFlagsUnmasked(flags) == flags

CleanFlags(flags) == BitAnd(flags, PrimaryModifierMask)

(***************************************************************************)
(* keyboardCallback (keyboard.c).  The operator gives everything one       *)
(* invocation does: the context it leaves, what it returns ("event": the   *)
(* event it was given, untouched; NULL: the event is dropped), whether it  *)
(* calls sync_and_save_settings, the messages it logs, the recording       *)
(* callbacks it invokes and the update_tray_state calls it makes.          *)
(***************************************************************************)
\* if (ctx->recording)
InRecording(ctx) == ctx.recording

\* variant: the capture leaves the recording mode on
RecordedContextStillRecording(ctx, event) ==
    [ctx EXCEPT !.shortcutFlags   = CleanFlags(event.flags),
                !.shortcutKeyCode = event.keyCode % UShortRange]

\* ctx->shortcutFlags = cleanFlags; ctx->shortcutKeyCode = keyCode; ctx->recording = false
RecordedContext(ctx, event) ==
    [ctx EXCEPT !.shortcutFlags   = CleanFlags(event.flags),
                !.shortcutKeyCode = event.keyCode % UShortRange,
                !.recording       = FALSE]

\* if (ctx->recordingCallback) ctx->recordingCallback(cleanFlags, keyCode)
RecordingCallbackCalls(ctx, event) ==
    IF ctx.recordingCallback # NULL
        THEN <<[fn      |-> ctx.recordingCallback,
                flags   |-> CleanFlags(event.flags),
                keyCode |-> event.keyCode % UShortRange]>>
        ELSE <<>>

\* variant: the combination is matched whether the shortcut is enabled or not
IsEmergencyMatchAlways(ctx, event) ==
    /\ event.type = kCGEventKeyDown
    /\ CleanFlags(event.flags) = ctx.shortcutFlags
    /\ event.keyCode % UShortRange = ctx.shortcutKeyCode

\* ctx->shortcutEnabled && type == kCGEventKeyDown
\*     && cleanFlags == ctx->shortcutFlags && keyCode == ctx->shortcutKeyCode
IsEmergencyMatch(ctx, event) ==
    /\ ctx.shortcutEnabled
    /\ event.type = kCGEventKeyDown
    /\ CleanFlags(event.flags) = ctx.shortcutFlags
    /\ event.keyCode % UShortRange = ctx.shortcutKeyCode

\* variant: only the two key categories are blocked
IsBlockedTypeKeysOnly(type) == type \in {kCGEventKeyDown, kCGEventKeyUp}

\* type == KeyDown || type == KeyUp || type == FlagsChanged || type == SystemDefined
IsBlockedType(type) ==
    type \in {kCGEventKeyDown, kCGEventKeyUp, kCGEventFlagsChanged, kCGEventSystemDefined}

\* return event, nothing else done
PassThrough(ctx) ==
    [ctx |-> ctx, ret |-> "event", save |-> FALSE, log |-> <<>>,
     calls |-> <<>>, tray |-> <<>>]

\* variant: the capturing key-down is dropped while blocking is active
CaptureResultBlocked(ctx, event) ==
    [ctx   |-> RecordedContext(ctx, event),
     ret   |-> IF ctx.enabled THEN NULL ELSE "event",
     save  |-> TRUE,
     log   |-> <<"Shortcut recorded and saved.">>,
     calls |-> RecordingCallbackCalls(ctx, event),
     tray  |-> <<>>]

\* variant: the capture is stored in the context but never saved
CaptureResultUnsaved(ctx, event) ==
    [ctx   |-> RecordedContext(ctx, event),
     ret   |-> "event",
     save  |-> FALSE,
     log   |-> <<"Shortcut recorded and saved.">>,
     calls |-> RecordingCallbackCalls(ctx, event),
     tray  |-> <<>>]

\* the recording branch on a key-down: store, save, log, call back, return event
CaptureResult(ctx, event) ==
    [ctx   |-> RecordedContext(ctx, event),
     ret   |-> "event",
     save  |-> TRUE,
     log   |-> IF ctx.recordingCallback # NULL
                   THEN <<"Shortcut recorded and saved.",
                          "Shortcut flags: %llu, KeyCode: %hu">>
                   ELSE <<"Shortcut recorded and saved.">>,
     calls |-> RecordingCallbackCalls(ctx, event),
     tray  |-> <<>>]

\* variant: the emergency branch passes the event but leaves blocking as it is
EmergencyResultStillBlocking(ctx) ==
    [ctx   |-> ctx,
     ret   |-> "event",
     save  |-> FALSE,
     log   |-> <<"Emergency shortcut detected. Disabling block.">>,
     calls |-> <<>>,
     tray  |-> <<>>]

\* variant: the unlock also switches the emergency shortcut off
EmergencyResultDisablingShortcut(ctx) ==
    [ctx   |-> [ctx EXCEPT !.enabled = FALSE, !.shortcutEnabled = FALSE],
     ret   |-> "event",
     save  |-> FALSE,
     log   |-> <<"Emergency shortcut detected. Disabling block.">>,
     calls |-> <<>>,
     tray  |-> <<FALSE>>]

\* the emergency branch: ctx->enabled = false; update_tray_state(false); return event
EmergencyResult(ctx) ==
    [ctx   |-> [ctx EXCEPT !.enabled = FALSE],
     ret   |-> "event",
     save  |-> FALSE,
     log   |-> <<"Emergency shortcut detected. Disabling block.">>,
     calls |-> <<>>,
     tray  |-> <<FALSE>>]

\* the blocking branch: return NULL
BlockResult(ctx) ==
    [ctx |-> ctx, ret |-> NULL, save |-> FALSE, log |-> <<"Keyboard event blocked">>,
     calls |-> <<>>, tray |-> <<>>]

\* variant: the emergency branch is tried before the recording branch
keyboardCallbackEmergencyFirst(event, refcon) ==
    IF IsEmergencyMatch(refcon, event) THEN EmergencyResult(refcon)
    ELSE IF InRecording(refcon) THEN
        IF event.type = kCGEventKeyDown
            THEN CaptureResult(refcon, event)
            ELSE PassThrough(refcon)
    ELSE IF ~refcon.enabled THEN PassThrough(refcon)
    ELSE IF IsBlockedType(event.type) THEN BlockResult(refcon)
    ELSE PassThrough(refcon)

\* variant: the blocking branch does not look at ctx->enabled
keyboardCallbackAlwaysBlocking(event, refcon) ==
    IF InRecording(refcon) THEN
        IF event.type = kCGEventKeyDown
            THEN CaptureResult(refcon, event)
            ELSE PassThrough(refcon)
    ELSE IF IsEmergencyMatch(refcon, event) THEN EmergencyResult(refcon)
    ELSE IF IsBlockedType(event.type) THEN BlockResult(refcon)
    ELSE PassThrough(refcon)

keyboardCallback(event, refcon) ==
    IF InRecording(refcon) THEN
        IF event.type = kCGEventKeyDown
            THEN CaptureResult(refcon, event)
            ELSE PassThrough(refcon)
    ELSE IF IsEmergencyMatch(refcon, event) THEN EmergencyResult(refcon)
    ELSE IF ~refcon.enabled THEN PassThrough(refcon)
    ELSE IF IsBlockedType(event.type) THEN BlockResult(refcon)
    ELSE PassThrough(refcon)

\* keyboardCallback of the build without the tray (keyboard.c, first version):
\* the context holds the blocking flag only
keyboardCallbackBasic(event, enabled) ==
    IF ~enabled THEN "event"
    ELSE IF IsBlockedType(event.type) THEN NULL
    ELSE "event"

\* setupKeyboardEventTap of the build without the tray: the tap is created
\* by the call itself.  installed: g_context != NULL before the call;
\* callocOk, tapOk: whether calloc and CGEventTapCreate succeed.
setupKeyboardEventTapBasic(installed, callocOk, tapOk) ==
    IF installed
        THEN [ret |-> KB_ERROR_ALREADY_STARTED, installed |-> TRUE, tapCreated |-> FALSE]
    ELSE IF ~callocOk
        THEN [ret |-> KB_ERROR_EVENT_TAP_FAILED, installed |-> FALSE, tapCreated |-> FALSE]
    ELSE IF ~tapOk
        THEN [ret |-> KB_ERROR_PERMISSION_DENIED, installed |-> FALSE, tapCreated |-> FALSE]
    ELSE [ret |-> KB_SUCCESS, installed |-> TRUE, tapCreated |-> TRUE]

\* init_keyboard of the program that installs from main: 1 on success, 0 on failure
init_keyboard(result) == IF result # KB_SUCCESS THEN 0 ELSE 1

\* the exit status of that program: 1 when init_keyboard fails, else 0 once
\* the application has run
main(result) == IF init_keyboard(result) = 0 THEN 1 ELSE 0

(***************************************************************************)
(* The tray shell (tray.m).                                                *)
(***************************************************************************)
\* variant: the block is never dispatched
update_tray_stateWithoutDispatch(active, item, queue) == queue

\* update_tray_state: nothing without a status item, else a block on the main queue
update_tray_state(active, item, queue) ==
    IF ~item THEN queue ELSE Append(queue, active)

\* trayDelegate is set by setup_tray_icon before the application runs, and
\* the launch handler is a method of that delegate: a process that has a
\* status item has a delegate, and an engine used without the shell has none
trayDelegate == statusItem

\* recorded_shortcut_callback, once for each of calls that invokes it: if
\* (trayDelegate), one more updateShortcutButton pending on the main thread
performSelectorOnMainThread(calls, delegate, pending) ==
    pending + Cardinality({i \in 1..Len(calls) :
                              calls[i].fn = recorded_shortcut_callback /\ delegate})

RECURSIVE UpdateTrayAll(_, _, _)
UpdateTrayAll(actives, item, queue) ==
    IF actives = <<>> THEN queue
    ELSE UpdateTrayAll(Tail(actives), item, update_tray_state(Head(actives), item, queue))

(***************************************************************************)
(* Observation of a call.                                                  *)
(***************************************************************************)
Observed(op, r) ==
    [op |-> op, args |-> <<>>, event |-> NoEvent, pre |-> NoContext, ret |-> r,
     log |-> <<>>, calls |-> <<>>, tray |-> <<>>, saves |-> <<>>, loaded |-> <<>>]

\* the same for a call with arguments
ObservedCall(op, args, r) == [Observed(op, r) EXCEPT !.args = args]

ThreadIds == 1..MaxReinstalls

TypeOK ==
    /\ g_recording_callback \in Callbacks
    /\ fsWritable \in BOOLEAN
    /\ statusItem \in BOOLEAN
    /\ blockingSwitch \in BOOLEAN
    /\ running \in BOOLEAN
    /\ nthreads \in 0..MaxReinstalls
    /\ Len(trayQueue) <= MaxQueue + 1
    /\ recordButton \in {"nil", "enabled", "disabled"}
    /\ mainThreadSelectors \in 0..MaxQueue
    /\ g_context.allocated \in BOOLEAN

Init ==
    /\ g_context = NoContext
    /\ g_recording_callback = NULL
    /\ settingsFile \in InitialFiles
    /\ fsWritable \in BOOLEAN
    /\ threads = [t \in ThreadIds |-> "unborn"]
    /\ taps = [t \in ThreadIds |-> "none"]
    /\ nthreads = 0
    /\ statusItem = FALSE
    /\ blockingSwitch = FALSE
    /\ trayQueue = <<>>
    /\ running = TRUE
    /\ installResult = [t \in ThreadIds |-> "none"]
    /\ recordButton = "nil"
    /\ mainThreadSelectors = 0
    /\ ui = NoUi
    /\ last = Observed("main", "void")

(***************************************************************************)
(* The event tap delivers an event: one invocation of keyboardCallback on  *)
(* the background thread, with the context as refcon.                      *)
(***************************************************************************)
TapLive ==
    /\ g_context.allocated
    /\ g_context.eventTap # NoTap
    /\ taps[g_context.eventTap] = "enabled"

DeliverEvent(event) ==
    /\ running
    /\ TapLive
    /\ LET out == keyboardCallback(event, g_context) IN
        /\ Len(UpdateTrayAll(out.tray, statusItem, trayQueue)) <= MaxQueue
        /\ g_context' = out.ctx
        /\ settingsFile' =
              IF out.save
                  THEN save_settings(sync_and_save_settings(out.ctx), settingsFile, fsWritable)
                  ELSE settingsFile
        /\ trayQueue' = UpdateTrayAll(out.tray, statusItem, trayQueue)
        /\ performSelectorOnMainThread(out.calls, trayDelegate, mainThreadSelectors)
               <= MaxQueue
        /\ mainThreadSelectors' =
              performSelectorOnMainThread(out.calls, trayDelegate, mainThreadSelectors)
        /\ last' = [op |-> "keyboardCallback", args |-> <<>>,
                    event |-> event, pre |-> g_context,
                    ret |-> out.ret, log |-> out.log, calls |-> out.calls,
                    tray |-> out.tray,
                    saves |-> IF out.save THEN <<sync_and_save_settings(out.ctx)>>
                                          ELSE <<>>,
                    loaded |-> <<>>]
    /\ UNCHANGED <<recordButton, ui>>
    /\ UNCHANGED <<g_recording_callback, fsWritable, installResult, threads, taps, nthreads,
                   statusItem, blockingSwitch, running>>

(***************************************************************************)
(* Installation and the background thread.                                 *)
(***************************************************************************)
\* variant: install forgets the callback registered before it
InstalledContextWithoutCallback(file, callback, t) ==
    [loadDefaultKeyboardSettings(file) EXCEPT !.thread = t]

\* the context setupKeyboardEventTap leaves on success, its thread being t
InstalledContext(file, callback, t) ==
    [loadDefaultKeyboardSettings(file) EXCEPT
        !.thread = t, !.recordingCallback = callback]

\* variant: a second install replaces the engine that is already installed
setupKeyboardEventTapReinstalling(cap) ==
    /\ running
    /\ nthreads < cap
    /\ nthreads' = nthreads + 1
    /\ threads' = [threads EXCEPT ![nthreads + 1] = "created"]
    /\ installResult' = [installResult EXCEPT ![nthreads + 1] = KB_SUCCESS]
    /\ g_context' = InstalledContext(settingsFile, g_recording_callback, nthreads + 1)
    /\ last' = ObservedCall("setupKeyboardEventTap", <<>>, KB_SUCCESS)
    /\ UNCHANGED <<recordButton, mainThreadSelectors, ui>>
    /\ UNCHANGED <<g_recording_callback, settingsFile, fsWritable, taps,
                   statusItem, blockingSwitch, trayQueue, running>>

\* setupKeyboardEventTap, pthread_create succeeding at most cap times in a run
setupKeyboardEventTapWithin(cap) ==
    /\ running
    /\ \/ /\ g_context.allocated
          /\ last' = ObservedCall("setupKeyboardEventTap", <<>>,
                                  KB_ERROR_ALREADY_STARTED)
          /\ UNCHANGED <<g_context, threads, nthreads, installResult>>
       \/ \* calloc or pthread_create fails: no context is left
          /\ ~g_context.allocated
          /\ last' = ObservedCall("setupKeyboardEventTap", <<>>,
                                  KB_ERROR_EVENT_TAP_FAILED)
          /\ UNCHANGED <<g_context, threads, nthreads, installResult>>
       \/ /\ ~g_context.allocated
          /\ nthreads < cap
          /\ nthreads' = nthreads + 1
          /\ threads' = [threads EXCEPT ![nthreads + 1] = "created"]
          /\ installResult' = [installResult EXCEPT ![nthreads + 1] = KB_SUCCESS]
          /\ g_context' =
                InstalledContext(settingsFile, g_recording_callback, nthreads + 1)
          /\ last' = ObservedCall("setupKeyboardEventTap", <<>>, KB_SUCCESS)
    /\ UNCHANGED <<recordButton, mainThreadSelectors, ui>>
    /\ UNCHANGED <<g_recording_callback, settingsFile, fsWritable, taps,
                   statusItem, blockingSwitch, trayQueue, running>>

setupKeyboardEventTap == setupKeyboardEventTapWithin(MaxInstalls)

\* The thread's start-up steps.  When its context has been freed meanwhile
\* its writes land in freed memory and the tap keeps a dangling refcon.
keyboard_thread_func(t) ==
    /\ running
    /\ threads[t] = "created"
    /\ \/ \* CGEventTapCreate returns NULL
          /\ threads' = [threads EXCEPT ![t] = "returned"]
          /\ UNCHANGED <<g_context, taps>>
       \/ /\ threads' = [threads EXCEPT ![t] = "looping"]
          /\ taps' = [taps EXCEPT ![t] = "enabled"]
          /\ g_context' =
                IF g_context.allocated /\ g_context.thread = t
                    THEN [g_context EXCEPT !.eventTap = t, !.runLoopSource = t]
                    ELSE g_context
    /\ last' = ObservedCall("keyboard_thread_func", <<t>>, "void")
    /\ UNCHANGED <<recordButton, mainThreadSelectors, ui>>
    /\ UNCHANGED <<g_recording_callback, settingsFile, fsWritable, installResult, nthreads,
                   statusItem, blockingSwitch, trayQueue, running>>

\* the taps after cleanup_keyboard: CGEventTapEnable(eventTap, false); CFRelease
CleanedTaps(ctx, tp) ==
    IF ctx.allocated /\ ctx.eventTap # NoTap
        THEN [tp EXCEPT ![ctx.eventTap] = "disabled"]
        ELSE tp

\* CFRunLoopGetCurrent() on the UI thread: the main run loop.  The run loop
\* of background thread t is t.
MainLoop == 0

\* CFRunLoopRemoveSource(loop, source, modes): a background loop that loses
\* its only source leaves CFRunLoopRun, and its thread returns; a loop that
\* does not hold the source is left as it is
CFRunLoopRemoveSource(loop, source, ths) ==
    IF loop \in ThreadIds /\ loop = source /\ ths[loop] = "looping"
        THEN [ths EXCEPT ![loop] = "returned"]
        ELSE ths

\* the threads after cleanup_keyboard, which runs on the UI thread
CleanedThreads(ctx, ths) ==
    IF ctx.allocated /\ ctx.runLoopSource # NoTap
        THEN CFRunLoopRemoveSource(MainLoop, ctx.runLoopSource, ths)
        ELSE ths

cleanup_keyboard ==
    /\ running
    /\ threads' = CleanedThreads(g_context, threads)
    /\ taps' = CleanedTaps(g_context, taps)
    /\ g_context' = NoContext
    /\ last' = ObservedCall("cleanup_keyboard", <<>>, "void")
    /\ UNCHANGED <<recordButton, mainThreadSelectors, ui>>
    /\ UNCHANGED <<g_recording_callback, settingsFile, fsWritable, installResult, nthreads,
                   statusItem, blockingSwitch, trayQueue, running>>

(***************************************************************************)
(* One invocation of keyboardCallback in two steps, for the runs in which  *)
(* the UI thread acts while the background thread is inside the callback:  *)
(* the tap calls keyboardCallback with its refcon, and the body runs.      *)
(* Nothing makes cleanup_keyboard wait for the background thread.          *)
(***************************************************************************)
\* the tap of thread t, enabled, calls keyboardCallback(proxy, type, event, refcon)
keyboardCallbackEnter(t) ==
    /\ running
    /\ threads[t] = "looping"
    /\ taps[t] = "enabled"
    /\ threads' = [threads EXCEPT ![t] = "in_callback"]
    /\ last' = ObservedCall("keyboardCallback.enter", <<t>>, "void")
    /\ UNCHANGED <<recordButton, mainThreadSelectors, ui>>
    /\ UNCHANGED <<g_context, g_recording_callback, settingsFile, fsWritable,
                   installResult, taps, nthreads, statusItem, blockingSwitch,
                   trayQueue, running>>

\* The body of the invocation thread t is in.  While the context the tap
\* was created with is installed the body acts on it.  Once it has been
\* freed the body reads freed memory: it returns the event or NULL as the
\* bytes it finds decide, or, the memory having been handed out again by
\* calloc, it acts on the context installed since.
keyboardCallbackRun(t, event) ==
    /\ running
    /\ threads[t] = "in_callback"
    /\ threads' = [threads EXCEPT ![t] = "looping"]
    /\ \/ /\ g_context.allocated
          /\ LET out == keyboardCallback(event, g_context) IN
              /\ Len(UpdateTrayAll(out.tray, statusItem, trayQueue)) <= MaxQueue
              /\ g_context' = out.ctx
              /\ settingsFile' =
                    IF out.save
                        THEN save_settings(sync_and_save_settings(out.ctx), settingsFile,
                                           fsWritable)
                        ELSE settingsFile
              /\ trayQueue' = UpdateTrayAll(out.tray, statusItem, trayQueue)
              /\ performSelectorOnMainThread(out.calls, trayDelegate,
                                             mainThreadSelectors) <= MaxQueue
              /\ mainThreadSelectors' =
                    performSelectorOnMainThread(out.calls, trayDelegate,
                                                mainThreadSelectors)
              /\ last' = [op |-> "keyboardCallback", args |-> <<t>>,
                          event |-> event,
                          pre |-> IF g_context.thread = t THEN g_context ELSE NoContext,
                          ret |-> out.ret, log |-> out.log, calls |-> out.calls,
                          tray |-> out.tray,
                          saves |-> IF out.save THEN <<sync_and_save_settings(out.ctx)>>
                                                ELSE <<>>,
                          loaded |-> <<>>]
       \/ /\ ~(g_context.allocated /\ g_context.thread = t)
          /\ \E ret \in {"event", NULL} :
                last' = [op |-> "keyboardCallback", args |-> <<t>>, event |-> event,
                         pre |-> NoContext, ret |-> ret, log |-> <<>>, calls |-> <<>>,
                         tray |-> <<>>, saves |-> <<>>, loaded |-> <<>>]
          /\ UNCHANGED <<g_context, settingsFile, trayQueue, mainThreadSelectors>>
    /\ UNCHANGED <<recordButton, ui>>
    /\ UNCHANGED <<g_recording_callback, fsWritable, installResult, taps, nthreads,
                   statusItem, blockingSwitch, running>>

(***************************************************************************)
(* The public operations called on the UI thread.                          *)
(***************************************************************************)
\* ctx->enabled = on
BlockSetToggling(ctx, on) == [ctx EXCEPT !.enabled = ~ctx.enabled]

BlockSet(ctx, on) == [ctx EXCEPT !.enabled = on]

\* variant: the operation saves although no engine is installed
StoreAndSaveUnguarded(op, args, ctx) ==
    /\ running
    /\ g_context' = IF g_context.allocated THEN ctx ELSE g_context
    /\ settingsFile' =
          IF g_context.allocated
              THEN save_settings(sync_and_save_settings(ctx), settingsFile, fsWritable)
              ELSE save_settings(DefaultSettings, settingsFile, fsWritable)
    /\ last' = [ObservedCall(op, args, "void") EXCEPT
                   !.saves = <<DefaultSettings>>]
    /\ UNCHANGED <<recordButton, mainThreadSelectors, ui>>
    /\ UNCHANGED <<g_recording_callback, fsWritable, installResult, threads, taps,
                   nthreads, statusItem, blockingSwitch, trayQueue, running>>

\* variant: the store is given up when the settings file cannot be written
StoreAndSaveIfWritable(op, args, ctx) ==
    /\ running
    /\ g_context' = IF g_context.allocated /\ fsWritable THEN ctx ELSE g_context
    /\ settingsFile' =
          IF g_context.allocated
              THEN save_settings(sync_and_save_settings(ctx), settingsFile, fsWritable)
              ELSE settingsFile
    /\ last' = [ObservedCall(op, args, "void") EXCEPT
                   !.saves = IF g_context.allocated
                                 THEN <<sync_and_save_settings(ctx)>>
                                 ELSE <<>>]
    /\ UNCHANGED <<recordButton, mainThreadSelectors, ui>>
    /\ UNCHANGED <<g_recording_callback, fsWritable, installResult, threads, taps,
                   nthreads, statusItem, blockingSwitch, trayQueue, running>>

\* if (g_context) { <store>; sync_and_save_settings(); }
StoreAndSave(op, args, ctx) ==
    /\ running
    /\ g_context' = IF g_context.allocated THEN ctx ELSE g_context
    /\ settingsFile' =
          IF g_context.allocated
              THEN save_settings(sync_and_save_settings(ctx), settingsFile, fsWritable)
              ELSE settingsFile
    /\ last' = [ObservedCall(op, args, "void") EXCEPT
                   !.saves = IF g_context.allocated
                                 THEN <<sync_and_save_settings(ctx)>>
                                 ELSE <<>>]
    /\ UNCHANGED <<recordButton, mainThreadSelectors, ui>>
    /\ UNCHANGED <<g_recording_callback, fsWritable, installResult, threads, taps,
                   nthreads, statusItem, blockingSwitch, trayQueue, running>>

enableKeyboardBlock(on) ==
    StoreAndSave("enableKeyboardBlock", <<on>>,
                 IF g_context.allocated THEN BlockSet(g_context, on) ELSE g_context)

setShortcutEnabled(enabled) ==
    StoreAndSave("setShortcutEnabled", <<enabled>>,
                 IF g_context.allocated
                     THEN [g_context EXCEPT !.shortcutEnabled = enabled]
                     ELSE g_context)

\* variant: the modifiers are masked before they are stored
ShortcutSetMasked(ctx, flags, keyCode) ==
    [ctx EXCEPT !.shortcutFlags = CleanFlags(flags),
                !.shortcutKeyCode = keyCode % UShortRange]

\* ctx->shortcutFlags = (CGEventFlags)flags; ctx->shortcutKeyCode = (CGKeyCode)keyCode
ShortcutSet(ctx, flags, keyCode) ==
    [ctx EXCEPT !.shortcutFlags = flags,
                !.shortcutKeyCode = keyCode % UShortRange]

setShortcut(flags, keyCode) ==
    StoreAndSave("setShortcut", <<flags, keyCode>>,
                 IF g_context.allocated
                     THEN ShortcutSet(g_context, flags, keyCode)
                     ELSE g_context)

\* getShortcut(&flags, &keyCode): what the two variables hold after the call,
\* flags and keyCode being what they held before it
getShortcut(flags, keyCode) ==
    IF g_context.allocated
        THEN <<g_context.shortcutFlags, g_context.shortcutKeyCode % UShortRange>>
        ELSE <<flags, keyCode>>

isKeyboardBlockEnabled == IF g_context.allocated THEN g_context.enabled ELSE FALSE

isShortcutEnabled == IF g_context.allocated THEN g_context.shortcutEnabled ELSE FALSE

setRecordingCallback(callback) ==
    /\ running
    /\ g_recording_callback' = callback
    /\ g_context' =
          IF g_context.allocated
              THEN [g_context EXCEPT !.recordingCallback = callback]
              ELSE g_context
    /\ last' = ObservedCall("setRecordingCallback", <<callback>>, "void")
    /\ UNCHANGED <<recordButton, mainThreadSelectors, ui>>
    /\ UNCHANGED <<settingsFile, fsWritable, installResult, threads, taps, nthreads,
                   statusItem, blockingSwitch, trayQueue, running>>

\* variant: a call made while recording stops the recording
startRecordingToggling ==
    /\ running
    /\ g_context' =
          IF g_context.allocated
              THEN [g_context EXCEPT !.recording = ~g_context.recording]
              ELSE g_context
    /\ last' = ObservedCall("startRecording", <<>>, "void")
    /\ UNCHANGED <<recordButton, mainThreadSelectors, ui>>
    /\ UNCHANGED <<g_recording_callback, settingsFile, fsWritable, installResult, threads, taps,
                   nthreads, statusItem, blockingSwitch, trayQueue, running>>

startRecording ==
    /\ running
    /\ ui = NoUi
    /\ g_context' =
          IF g_context.allocated
              THEN [g_context EXCEPT !.recording = TRUE]
              ELSE g_context
    /\ last' = ObservedCall("startRecording", <<>>, "void")
    /\ UNCHANGED <<recordButton, mainThreadSelectors, ui>>
    /\ UNCHANGED <<g_recording_callback, settingsFile, fsWritable, installResult, threads, taps,
                   nthreads, statusItem, blockingSwitch, trayQueue, running>>

(***************************************************************************)
(* The tray shell's handlers (tray.m).                                     *)
(***************************************************************************)
\* applicationDidFinishLaunching: register the callback, install, and either
\* build the status item or show an alert and terminate (which runs
\* applicationWillTerminate, hence cleanup_keyboard).
applicationDidFinishLaunching ==
    /\ running
    /\ ~statusItem
    /\ g_recording_callback' = recorded_shortcut_callback
    /\ \/ \* install fails: AlreadyStarted, or calloc / pthread_create failed
          /\ threads' = CleanedThreads(g_context, threads)
          /\ taps' = CleanedTaps(g_context, taps)
          /\ g_context' = NoContext
          /\ running' = FALSE
          /\ last' = Observed("applicationDidFinishLaunching",
                              IF g_context.allocated THEN KB_ERROR_ALREADY_STARTED
                                                     ELSE KB_ERROR_EVENT_TAP_FAILED)
          /\ UNCHANGED <<nthreads, statusItem, blockingSwitch, installResult,
                         recordButton>>
       \/ /\ ~g_context.allocated
          /\ nthreads < MaxInstalls
          /\ nthreads' = nthreads + 1
          /\ threads' = [threads EXCEPT ![nthreads + 1] = "created"]
          /\ installResult' = [installResult EXCEPT ![nthreads + 1] = KB_SUCCESS]
          /\ g_context' =
                InstalledContext(settingsFile, recorded_shortcut_callback, nthreads + 1)
          /\ statusItem' = TRUE
          /\ blockingSwitch' =
                InstalledContext(settingsFile, recorded_shortcut_callback,
                                 nthreads + 1).enabled
          /\ recordButton' = "enabled"
          /\ last' = Observed("applicationDidFinishLaunching", KB_SUCCESS)
          /\ UNCHANGED <<taps, running>>
    /\ UNCHANGED <<mainThreadSelectors, ui>>
    /\ UNCHANGED <<settingsFile, fsWritable, trayQueue>>

\* applicationWillTerminate: cleanup_keyboard, then the process ends
applicationWillTerminate ==
    /\ running
    /\ threads' = CleanedThreads(g_context, threads)
    /\ taps' = CleanedTaps(g_context, taps)
    /\ g_context' = NoContext
    /\ running' = FALSE
    /\ last' = Observed("applicationWillTerminate", "void")
    /\ UNCHANGED <<recordButton, mainThreadSelectors, ui>>
    /\ UNCHANGED <<g_recording_callback, settingsFile, fsWritable, installResult, nthreads,
                   statusItem, blockingSwitch, trayQueue>>

\* variant: the switch handler changes the engine and tells nobody
switchActionSilent ==
    /\ running
    /\ statusItem
    /\ blockingSwitch' = ~blockingSwitch
    /\ g_context' =
          IF g_context.allocated THEN BlockSet(g_context, ~blockingSwitch) ELSE g_context
    /\ settingsFile' =
          IF g_context.allocated
              THEN save_settings(sync_and_save_settings(BlockSet(g_context, ~blockingSwitch)),
                                 settingsFile, fsWritable)
              ELSE settingsFile
    /\ last' = [ObservedCall("switchAction", <<~blockingSwitch>>, "void") EXCEPT
                   !.saves = IF g_context.allocated
                                 THEN <<sync_and_save_settings(
                                            BlockSet(g_context, ~blockingSwitch))>>
                                 ELSE <<>>]
    /\ UNCHANGED <<recordButton, mainThreadSelectors, ui>>
    /\ UNCHANGED <<g_recording_callback, fsWritable, installResult, threads, taps,
                   nthreads, statusItem, trayQueue, running>>

\* switchAction: the user has flipped the blocking switch, whose state is now
\* newState; enableKeyboardBlock(newState), then update_tray_state(newState)
switchAction ==
    LET newState == ~blockingSwitch IN
    /\ running
    /\ statusItem
    /\ Len(update_tray_state(newState, statusItem, trayQueue)) <= MaxQueue
    /\ blockingSwitch' = newState
    /\ g_context' =
          IF g_context.allocated THEN BlockSet(g_context, newState) ELSE g_context
    /\ settingsFile' =
          IF g_context.allocated
              THEN save_settings(sync_and_save_settings(BlockSet(g_context, newState)),
                                 settingsFile, fsWritable)
              ELSE settingsFile
    /\ trayQueue' = update_tray_state(newState, statusItem, trayQueue)
    /\ last' = [ObservedCall("switchAction", <<newState>>, "void") EXCEPT
                   !.saves = IF g_context.allocated
                                 THEN <<sync_and_save_settings(BlockSet(g_context, newState))>>
                                 ELSE <<>>,
                   !.tray = <<newState>>]
    /\ UNCHANGED <<recordButton, mainThreadSelectors, ui>>
    /\ UNCHANGED <<g_recording_callback, fsWritable, installResult, threads, taps,
                   nthreads, statusItem, running>>

\* the main queue runs the oldest block update_tray_state dispatched
RunTrayBlock ==
    /\ running
    /\ ui = NoUi
    /\ trayQueue # <<>>
    /\ blockingSwitch' = Head(trayQueue)
    /\ trayQueue' = Tail(trayQueue)
    /\ last' = Observed("update_tray_state.block", "void")
    /\ UNCHANGED <<recordButton, mainThreadSelectors, ui>>
    /\ UNCHANGED <<g_context, g_recording_callback, settingsFile, fsWritable, installResult, threads,
                   taps, nthreads, statusItem, running>>

\* recordShortcutAction: the user clicks the record button, which is
\* disabled before startRecording() is called
recordShortcutAction ==
    /\ running
    /\ statusItem
    /\ ui = NoUi
    /\ recordButton = "enabled"
    /\ recordButton' = "disabled"
    /\ g_context' =
          IF g_context.allocated
              THEN [g_context EXCEPT !.recording = TRUE]
              ELSE g_context
    /\ last' = ObservedCall("recordShortcutAction", <<>>, "void")
    /\ UNCHANGED <<g_recording_callback, settingsFile, fsWritable, threads, taps,
                   nthreads, statusItem, blockingSwitch, trayQueue, running,
                   installResult, mainThreadSelectors, ui>>

\* stringForShortcut: getShortcut(&flags, &keyCode) on locals initialised to 0
stringForShortcut == getShortcut(0, 0)

\* the main thread performs a pending updateShortcutButton: the selector
\* carries no object, the title is computed from what getShortcut reads in
\* the engine at that moment, and the record button is enabled again
updateShortcutButton ==
    /\ running
    /\ ui = NoUi
    /\ mainThreadSelectors > 0
    /\ mainThreadSelectors' = mainThreadSelectors - 1
    /\ recordButton' = IF recordButton = "nil" THEN "nil" ELSE "enabled"
    /\ last' = [ObservedCall("updateShortcutButton", stringForShortcut, "void") EXCEPT
                   !.pre = g_context,
                   !.calls = <<[fn      |-> "getShortcut",
                                flags   |-> stringForShortcut[1],
                                keyCode |-> stringForShortcut[2]]>>]
    /\ UNCHANGED <<g_context, g_recording_callback, settingsFile, fsWritable, threads,
                   taps, nthreads, statusItem, blockingSwitch, trayQueue, running,
                   installResult, ui>>

Next ==
    \/ \E event \in Events : DeliverEvent(event)
    \/ setupKeyboardEventTap
    \/ \E t \in ThreadIds : keyboard_thread_func(t)
    \/ cleanup_keyboard
    \/ \E on \in BOOLEAN : enableKeyboardBlock(on)
    \/ \E enabled \in BOOLEAN : setShortcutEnabled(enabled)
    \/ \E flags \in StoredFlags, keyCode \in KeyCodes : setShortcut(flags, keyCode)
    \/ \E callback \in Callbacks : setRecordingCallback(callback)
    \/ startRecording
    \/ applicationDidFinishLaunching
    \/ applicationWillTerminate
    \/ switchAction
    \/ RunTrayBlock
    \/ updateShortcutButton

Spec == Init /\ [][Next]_vars

(***************************************************************************)
(* The decision function on its own: one invocation of keyboardCallback    *)
(* from any state of an installed engine whose tap is live and whose main  *)
(* queue is empty.  InitCallback is the set of those states that Spec      *)
(* reaches: the context fields are set by install, the thread's start-up,  *)
(* setShortcut, setShortcutEnabled, enableKeyboardBlock, startRecording    *)
(* and setRecordingCallback; the file is the one found at start-up or the  *)
(* one written by the last save.                                           *)
(***************************************************************************)
LiveContexts ==
    [allocated         : {TRUE},
     eventTap          : {1},
     runLoopSource     : {1},
     enabled           : BOOLEAN,
     shortcutEnabled   : BOOLEAN,
     recording         : BOOLEAN,
     shortcutFlags     : StoredFlags,
     shortcutKeyCode   : KeyCodes,
     recordingCallback : Callbacks,
     thread            : {1}]

\* the context differs from what was loaded from file f only in fields that
\* are changed without a save
LoadedFrom(ctx, f) ==
    LET s == load_settings(f) IN
    /\ ctx.enabled = s.blocking_enabled
    /\ ctx.shortcutEnabled = s.shortcut_enabled
    /\ ctx.shortcutFlags = s.shortcut_flags
    /\ ctx.shortcutKeyCode = s.shortcut_keycode

\* The files that can accompany a live context.  A file that cannot be
\* written is the one found at start-up.  Otherwise it is the one found at
\* start-up while nothing has been saved, or the one the last save wrote:
\* since then only an emergency unlock can have changed a saved field.
FilesFor(ctx, writable) ==
    IF ~writable THEN InitialFiles
    ELSE {f \in InitialFiles : LoadedFrom(ctx, f)}
         \cup {[exists |-> TRUE,
                lines  |-> SavedLines([sync_and_save_settings(ctx) EXCEPT
                                          !.blocking_enabled = b])] :
                  b \in IF ctx.enabled THEN {TRUE}
                        ELSE IF \E event \in Events : IsEmergencyMatch(ctx, event)
                            THEN BOOLEAN
                            ELSE {FALSE}}

\* The states of the blocking switch that can accompany a live context once
\* the main queue is empty.  Without a status item the switch is never set.
\* A click on the switch saves, so a writable file still as found at
\* start-up means no click; and an emergency unlock not yet followed by a
\* save (the file still says blocking_enabled=1) has set the switch to off.
SwitchFor(ctx, file, writable, item) ==
    IF ~item THEN {FALSE}
    ELSE IF writable
            /\ \/ file \in InitialFiles
               \/ /\ ~ctx.enabled
                  /\ \E i \in 1..Len(file.lines) :
                         file.lines[i] = FileLine("blocking_enabled", 1)
        THEN {FALSE}
    ELSE BOOLEAN

LiveState ==
    /\ g_context \in LiveContexts
    /\ g_recording_callback = g_context.recordingCallback
    /\ fsWritable \in BOOLEAN
    /\ settingsFile \in FilesFor(g_context, fsWritable)
    /\ threads = [t \in ThreadIds |-> IF t = 1 THEN "looping" ELSE "unborn"]
    /\ taps = [t \in ThreadIds |-> IF t = 1 THEN "enabled" ELSE "none"]
    /\ nthreads = 1
    /\ statusItem \in BOOLEAN
    /\ blockingSwitch \in SwitchFor(g_context, settingsFile, fsWritable, statusItem)
    /\ trayQueue = <<>>
    /\ running = TRUE
    /\ installResult = [t \in ThreadIds |-> IF t = 1 THEN KB_SUCCESS ELSE "none"]
    /\ recordButton = IF statusItem THEN "enabled" ELSE "nil"
    /\ mainThreadSelectors = 0
    /\ ui = NoUi

InitCallback ==
    /\ LiveState
    /\ last = Observed("main", "void")

NextCallback == \E event \in Events : last.op = "main" /\ DeliverEvent(event)

SpecCallback == InitCallback /\ [][NextCallback]_vars

(***************************************************************************)
(* The life cycle on its own: the engine is installed, used through its    *)
(* public operations and the blocking switch, torn down and installed      *)
(* again, up to MaxReinstalls times, while a few events are delivered.     *)
(***************************************************************************)
\* the combinations setShortcut is called with in these runs: none of the
\* modifiers, and all four primary ones with the caps-lock bit
LifecycleShortcuts ==
    {<<0, 0>>, <<PrimaryModifierMask + kCGEventFlagMaskAlphaShift, DEFAULT_SHORTCUT_KEYCODE>>}

\* the events delivered in these runs: the key-down of the first of
\* LifecycleShortcuts, and a key-up
LifecycleEvents ==
    {[type |-> kCGEventKeyDown, flags |-> 0, keyCode |-> 0],
     [type |-> kCGEventKeyUp, flags |-> 0, keyCode |-> 0]}

NextLifecycle ==
    \/ \E event \in LifecycleEvents : DeliverEvent(event)
    \/ setupKeyboardEventTapWithin(MaxReinstalls)
    \/ \E t \in ThreadIds : keyboard_thread_func(t)
    \/ cleanup_keyboard
    \/ \E on \in BOOLEAN : enableKeyboardBlock(on)
    \/ \E enabled \in BOOLEAN : setShortcutEnabled(enabled)
    \/ \E sc \in LifecycleShortcuts : setShortcut(sc[1], sc[2])
    \/ startRecording
    \/ applicationDidFinishLaunching
    \/ applicationWillTerminate
    \/ switchAction
    \/ RunTrayBlock
    \/ updateShortcutButton

SpecLifecycle == Init /\ [][NextLifecycle]_vars

(***************************************************************************)
(* Recording on its own: callbacks are registered before and after the     *)
(* engine is installed, by hand or by the launch handler, and key-downs    *)
(* are captured.                                                           *)
(***************************************************************************)
NextRecording ==
    \/ \E callback \in Callbacks : setRecordingCallback(callback)
    \/ setupKeyboardEventTapWithin(MaxReinstalls)
    \/ applicationDidFinishLaunching
    \/ \E t \in ThreadIds : keyboard_thread_func(t)
    \/ cleanup_keyboard
    \/ startRecording
    \/ \E event \in LifecycleEvents : DeliverEvent(event)
    \/ updateShortcutButton

SpecRecording == Init /\ [][NextRecording]_vars

(***************************************************************************)
(* The tray application as its user drives it: launch, clicks on the       *)
(* blocking switch, the record button, key events, and quit.  The main     *)
(* queue is serial and runs every block dispatched to it while the process *)
(* runs, which is the fairness of the fair version.                        *)
(***************************************************************************)
NextTray ==
    \/ applicationDidFinishLaunching
    \/ \E t \in ThreadIds : keyboard_thread_func(t)
    \/ switchAction
    \/ startRecording
    \/ \E event \in LifecycleEvents : DeliverEvent(event)
    \/ RunTrayBlock
    \/ applicationWillTerminate
    \/ updateShortcutButton

SpecTray == Init /\ [][NextTray]_vars

SpecTrayFair == SpecTray /\ WF_vars(RunTrayBlock)

(***************************************************************************)
(* Teardown against the background thread: install, the thread's start-up, *)
(* callback invocations in two steps, teardown and install again, up to    *)
(* MaxReinstalls times.  The fair version lets no background thread that   *)
(* can take a step wait for ever; what the UI thread does is up to the     *)
(* user.                                                                   *)
(***************************************************************************)
NextTeardown ==
    \/ setupKeyboardEventTapWithin(MaxReinstalls)
    \/ \E t \in ThreadIds : keyboard_thread_func(t)
    \/ \E t \in ThreadIds : keyboardCallbackEnter(t)
    \/ \E t \in ThreadIds, event \in LifecycleEvents : keyboardCallbackRun(t, event)
    \/ cleanup_keyboard
    \/ \E on \in BOOLEAN : enableKeyboardBlock(on)
    \/ startRecording

SpecTeardown == Init /\ [][NextTeardown]_vars

SpecTeardownFair ==
    /\ SpecTeardown
    /\ \A t \in ThreadIds : WF_vars(keyboard_thread_func(t))
    /\ \A t \in ThreadIds :
          WF_vars(\E event \in LifecycleEvents : keyboardCallbackRun(t, event))

(***************************************************************************)
(* The UI thread against the callback.  Nothing orders the stores, the     *)
(* copy and the write of an operation on the UI thread with the callback   *)
(* on the background thread: there is no lock and no atomic in keyboard.c. *)
(* Here an operation on the UI thread proceeds statement by statement, ui  *)
(* holding the statement it is about to execute, its arguments, the        *)
(* app_settings_t local of sync_and_save_settings, and the combination     *)
(* that was stored when it began; the callback runs between any two of     *)
(* them.  The main thread runs no block and no selector while a handler is *)
(* in progress.                                                            *)
(***************************************************************************)
UiAt(op, pc, args, s, was) == [op |-> op, pc |-> pc, args |-> args, s |-> s, was |-> was]

ShortcutOf(ctx) == <<ctx.shortcutFlags, ctx.shortcutKeyCode>>

\* the user flips the blocking switch: switchAction calls
\* enableKeyboardBlock(newState), which stores g_context->enabled = on
switchActionStore ==
    LET newState == ~blockingSwitch IN
    /\ running
    /\ statusItem
    /\ ui = NoUi
    /\ g_context.allocated
    /\ blockingSwitch' = newState
    /\ g_context' = BlockSet(g_context, newState)
    /\ ui' = UiAt("switchAction", "sync_and_save_settings", <<newState>>,
                  DefaultSettings, ShortcutOf(g_context))
    /\ last' = ObservedCall("switchAction.enableKeyboardBlock", <<newState>>, "void")
    /\ UNCHANGED <<g_recording_callback, settingsFile, fsWritable, threads, taps,
                   nthreads, statusItem, trayQueue, running, installResult,
                   recordButton, mainThreadSelectors>>

\* setShortcutEnabled: g_context->shortcutEnabled = enabled
setShortcutEnabledStore(enabled) ==
    /\ running
    /\ ui = NoUi
    /\ g_context.allocated
    /\ g_context' = [g_context EXCEPT !.shortcutEnabled = enabled]
    /\ ui' = UiAt("setShortcutEnabled", "sync_and_save_settings", <<enabled>>,
                  DefaultSettings, ShortcutOf(g_context))
    /\ last' = ObservedCall("setShortcutEnabled.store", <<enabled>>, "void")
    /\ UNCHANGED <<g_recording_callback, settingsFile, fsWritable, threads, taps,
                   nthreads, statusItem, blockingSwitch, trayQueue, running,
                   installResult, recordButton, mainThreadSelectors>>

\* setShortcut: g_context->shortcutFlags = (CGEventFlags)flags
setShortcutStoreFlags(flags, keyCode) ==
    /\ running
    /\ ui = NoUi
    /\ g_context.allocated
    /\ g_context' = [g_context EXCEPT !.shortcutFlags = flags]
    /\ ui' = UiAt("setShortcut", "shortcutKeyCode", <<flags, keyCode>>,
                  DefaultSettings, ShortcutOf(g_context))
    /\ last' = ObservedCall("setShortcut.shortcutFlags", <<flags, keyCode>>, "void")
    /\ UNCHANGED <<g_recording_callback, settingsFile, fsWritable, threads, taps,
                   nthreads, statusItem, blockingSwitch, trayQueue, running,
                   installResult, recordButton, mainThreadSelectors>>

\* setShortcut: g_context->shortcutKeyCode = (CGKeyCode)keyCode
setShortcutStoreKeyCode ==
    /\ running
    /\ ui.op = "setShortcut"
    /\ ui.pc = "shortcutKeyCode"
    /\ g_context' = [g_context EXCEPT !.shortcutKeyCode = ui.args[2] % UShortRange]
    /\ ui' = [ui EXCEPT !.pc = "sync_and_save_settings"]
    /\ last' = ObservedCall("setShortcut.shortcutKeyCode", ui.args, "void")
    /\ UNCHANGED <<g_recording_callback, settingsFile, fsWritable, threads, taps,
                   nthreads, statusItem, blockingSwitch, trayQueue, running,
                   installResult, recordButton, mainThreadSelectors>>

\* sync_and_save_settings: the four fields are copied into the local s
sync_and_save_settingsCopy ==
    /\ running
    /\ ui.op # "idle"
    /\ ui.pc = "sync_and_save_settings"
    /\ ui' = [ui EXCEPT !.pc = "save_settings", !.s = sync_and_save_settings(g_context)]
    /\ last' = ObservedCall("sync_and_save_settings", ui.args, "void")
    /\ UNCHANGED <<g_context, g_recording_callback, settingsFile, fsWritable, threads,
                   taps, nthreads, statusItem, blockingSwitch, trayQueue, running,
                   installResult, recordButton, mainThreadSelectors>>

\* save_settings(&s) writes the copy; the engine operation returns, and
\* with it every handler but switchAction
save_settingsWrite ==
    /\ running
    /\ ui.op # "idle"
    /\ ui.pc = "save_settings"
    /\ settingsFile' = save_settings(ui.s, settingsFile, fsWritable)
    /\ ui' = IF ui.op = "switchAction" THEN [ui EXCEPT !.pc = "update_tray_state"]
                                       ELSE NoUi
    /\ last' = [ObservedCall("save_settings", ui.args, "void") EXCEPT !.saves = <<ui.s>>]
    /\ UNCHANGED <<g_context, g_recording_callback, fsWritable, threads, taps,
                   nthreads, statusItem, blockingSwitch, trayQueue, running,
                   installResult, recordButton, mainThreadSelectors>>

\* switchAction: update_tray_state(newState); the handler returns.  The
\* block comes on top of what the callback has dispatched meanwhile.
switchActionNotify ==
    /\ running
    /\ ui.op = "switchAction"
    /\ ui.pc = "update_tray_state"
    /\ Len(update_tray_state(ui.args[1], statusItem, trayQueue)) <= MaxQueue + 1
    /\ trayQueue' = update_tray_state(ui.args[1], statusItem, trayQueue)
    /\ ui' = NoUi
    /\ last' = [ObservedCall("switchAction", ui.args, "void") EXCEPT !.tray = ui.args]
    /\ UNCHANGED <<g_context, g_recording_callback, settingsFile, fsWritable, threads,
                   taps, nthreads, statusItem, blockingSwitch, running, installResult,
                   recordButton, mainThreadSelectors>>

\* the events delivered in these runs: key-downs with no modifier of the
\* two key codes, and a key-up
InterleavedEvents ==
    {[type |-> kCGEventKeyDown, flags |-> 0, keyCode |-> 0],
     [type |-> kCGEventKeyDown, flags |-> 0, keyCode |-> DEFAULT_SHORTCUT_KEYCODE],
     [type |-> kCGEventKeyUp, flags |-> 0, keyCode |-> 0]}

\* the tray application with its switch handler in steps
NextInterleaved ==
    \/ applicationDidFinishLaunching
    \/ \E t \in ThreadIds : keyboard_thread_func(t)
    \/ switchActionStore
    \/ \E enabled \in BOOLEAN : setShortcutEnabledStore(enabled)
    \/ sync_and_save_settingsCopy
    \/ save_settingsWrite
    \/ switchActionNotify
    \/ recordShortcutAction
    \/ \E event \in InterleavedEvents : DeliverEvent(event)
    \/ RunTrayBlock
    \/ updateShortcutButton

SpecInterleaved == Init /\ [][NextInterleaved]_vars

\* setShortcut in steps against the callback
NextSetShortcut ==
    \/ setupKeyboardEventTap
    \/ \E t \in ThreadIds : keyboard_thread_func(t)
    \/ \E sc \in LifecycleShortcuts : setShortcutStoreFlags(sc[1], sc[2])
    \/ setShortcutStoreKeyCode
    \/ sync_and_save_settingsCopy
    \/ save_settingsWrite
    \/ \E event \in InterleavedEvents : DeliverEvent(event)

SpecSetShortcut == Init /\ [][NextSetShortcut]_vars

(***************************************************************************)
(* Recording from the menu: launch, the thread's start-up, clicks on the   *)
(* record button and the blocking switch, key events, and the selectors    *)
(* and blocks the main thread performs.                                    *)
(* In the fair version the thread is scheduled, the main thread performs   *)
(* every selector handed to it, and key-downs keep occurring: the callback *)
(* is invoked for them for as long as the tap is there to receive them.    *)
(***************************************************************************)
NextRecorder ==
    \/ applicationDidFinishLaunching
    \/ \E t \in ThreadIds : keyboard_thread_func(t)
    \/ recordShortcutAction
    \/ \E event \in LifecycleEvents : DeliverEvent(event)
    \/ updateShortcutButton
    \/ switchAction
    \/ RunTrayBlock

SpecRecorder == Init /\ [][NextRecorder]_vars

SpecRecorderFair ==
    /\ SpecRecorder
    /\ \A t \in ThreadIds : WF_vars(keyboard_thread_func(t))
    /\ WF_vars(\E event \in LifecycleEvents :
                  event.type = kCGEventKeyDown /\ DeliverEvent(event))
    /\ WF_vars(updateShortcutButton)

(***************************************************************************)
(* The settings store on its own: save_settings and load_settings applied  *)
(* to any settings value and to any file of at most MaxFileLines lines     *)
(* written over the known keys and an unknown one.                         *)
(***************************************************************************)
SettingsValues ==
    [shortcut_enabled : BOOLEAN,
     shortcut_flags   : StoredFlags,
     shortcut_keycode : KeyCodes \cup {UShortRange - 1},
     blocking_enabled : BOOLEAN]

HandWrittenLines ==
    {FileLine("shortcut_enabled", v) : v \in {0, 1}}
    \cup {FileLine("shortcut_flags", v) : v \in {0, DEFAULT_SHORTCUT_FLAGS}}
    \cup {FileLine("shortcut_keycode", v) :
             v \in {DEFAULT_SHORTCUT_KEYCODE + 1, UShortRange + DEFAULT_SHORTCUT_KEYCODE}}
    \cup {FileLine("blocking_enabled", v) : v \in {0, 1}}
    \cup {FileLine("theme", 7),
          LongLine("theme", 7, FileLine("shortcut_enabled", 0))}

HandWrittenFiles ==
    {NoFile}
    \cup {[exists |-> TRUE, lines |-> l] :
             l \in UNION {[1..n -> HandWrittenLines] : n \in 0..MaxFileLines}}

InitSettings ==
    /\ g_context = NoContext
    /\ g_recording_callback = NULL
    /\ settingsFile \in HandWrittenFiles
    /\ fsWritable \in BOOLEAN
    /\ threads = [t \in ThreadIds |-> "unborn"]
    /\ taps = [t \in ThreadIds |-> "none"]
    /\ nthreads = 0
    /\ statusItem = FALSE
    /\ blockingSwitch = FALSE
    /\ trayQueue = <<>>
    /\ running = TRUE
    /\ installResult = [t \in ThreadIds |-> "none"]
    /\ recordButton = "nil"
    /\ mainThreadSelectors = 0
    /\ ui = NoUi
    /\ last = Observed("main", "void")

\* save_settings(&s)
SaveSettings(s) ==
    /\ settingsFile' = save_settings(s, settingsFile, fsWritable)
    /\ last' = [Observed("save_settings", "void") EXCEPT !.saves = <<s>>]
    /\ UNCHANGED <<recordButton, mainThreadSelectors, ui>>
    /\ UNCHANGED <<g_context, g_recording_callback, fsWritable, threads, taps, nthreads,
                   statusItem, blockingSwitch, trayQueue, running, installResult>>

\* load_settings(&s); the observation keeps the value a save just before it was given
LoadSettings ==
    /\ last' = [Observed("load_settings", "void") EXCEPT
                   !.loaded = <<load_settings(settingsFile)>>,
                   !.saves = IF last.op = "save_settings" THEN last.saves ELSE <<>>]
    /\ UNCHANGED <<recordButton, mainThreadSelectors, ui>>
    /\ UNCHANGED <<g_context, g_recording_callback, settingsFile, fsWritable, threads,
                   taps, nthreads, statusItem, blockingSwitch, trayQueue, running,
                   installResult>>

NextSettings ==
    \/ \E s \in SettingsValues : SaveSettings(s)
    \/ LoadSettings

SpecSettings == InitSettings /\ [][NextSettings]_vars

(***************************************************************************)
(* Properties of keyboardCallback.  They are stated over the observation   *)
(* of the most recent call: while last.op = "keyboardCallback", last.pre   *)
(* is the context the callback read, last.event the event it was given,    *)
(* and g_context the context it left.                                      *)
(*                                                                         *)
(* The normalisation the specification speaks of is written here bit by    *)
(* bit, independently of the masking the code performs.                    *)
(***************************************************************************)
PrimaryBits ==
    {kCGEventFlagMaskCommand, kCGEventFlagMaskShift,
     kCGEventFlagMaskAlternate, kCGEventFlagMaskControl}

HasBit(flags, b) == (flags \div b) % 2 = 1

\* the intersection of a flag word with {Command, Shift, Option, Control}
Normalized(flags) == SumOf({b \in PrimaryBits : HasBit(flags, b)})

EmergencyLog == "Emergency shortcut detected. Disabling block."
BlockedLog == "Keyboard event blocked"

Logged(msg) == \E i \in 1..Len(last.log) : last.log[i] = msg

Delivered == last.op = "keyboardCallback"

\* the event's normalized modifiers and key code equal the shortcut stored before
MatchesStored ==
    /\ last.event.type = kCGEventKeyDown
    /\ Normalized(last.event.flags) = last.pre.shortcutFlags
    /\ last.event.keyCode = last.pre.shortcutKeyCode

\* a key-down handled while recording
Capture ==
    /\ Delivered
    /\ last.pre.recording
    /\ last.event.type = kCGEventKeyDown

\* the event's combination is what the context holds after the call
StoredFromEvent ==
    /\ g_context.shortcutFlags = Normalized(last.event.flags)
    /\ g_context.shortcutKeyCode = last.event.keyCode

\* C1: recording has priority over emergency unlock.  With recording and
\* shortcutEnabled both true, a key-down whose normalized modifiers and key
\* code equal the stored shortcut is captured (recording becomes false, the
\* shortcut is stored again), blocking keeps the value it had, and the
\* emergency branch does not run (no emergency log line, no tray update).
C1_RecordingBeforeEmergency ==
    (Delivered /\ last.pre.recording /\ last.pre.shortcutEnabled /\ MatchesStored)
        => /\ ~g_context.recording
           /\ StoredFromEvent
           /\ g_context.enabled = last.pre.enabled
           /\ ~Logged(EmergencyLog)
           /\ last.tray = <<>>

C1_Witness ==
    /\ Delivered /\ last.pre.recording /\ last.pre.shortcutEnabled /\ MatchesStored
    /\ last.pre.enabled
    /\ g_context.enabled
    /\ ~g_context.recording

\* C2: emergency unlock.  With recording false and shortcutEnabled true, a
\* key-down whose modifiers masked to {Command, Shift, Option, Control} and
\* whose key code equal the stored shortcut sets blocking to false and is
\* passed through, whether blocking was true or already false.
C2_EmergencyUnlock ==
    (Delivered /\ ~last.pre.recording /\ last.pre.shortcutEnabled /\ MatchesStored)
        => /\ ~g_context.enabled
           /\ last.ret = "event"

C2_Witness ==
    /\ Delivered /\ ~last.pre.recording /\ last.pre.shortcutEnabled /\ MatchesStored
    /\ last.pre.enabled
    /\ ~g_context.enabled
    /\ last.ret = "event"

\* C3: the panic combination is never swallowed.  In every reachable state
\* with blocking true, shortcutEnabled true and recording false, a key-down
\* carrying the stored key code and the stored modifier value is passed
\* through and disables blocking.
C3_PanicNeverSwallowed ==
    (/\ Delivered
     /\ last.pre.enabled /\ last.pre.shortcutEnabled /\ ~last.pre.recording
     /\ last.event.type = kCGEventKeyDown
     /\ last.event.flags = last.pre.shortcutFlags
     /\ last.event.keyCode = last.pre.shortcutKeyCode)
        => /\ last.ret = "event"
           /\ ~g_context.enabled

\* the panic combination, pressed exactly as stored, dropped by the blocking branch
C3_Swallowed ==
    /\ Delivered
    /\ last.pre.enabled /\ last.pre.shortcutEnabled /\ ~last.pre.recording
    /\ last.event.type = kCGEventKeyDown
    /\ last.event.flags = last.pre.shortcutFlags
    /\ last.event.keyCode = last.pre.shortcutKeyCode
    /\ last.ret = NULL
    /\ g_context.enabled
    /\ Logged(BlockedLog)

\* C4: in every reachable state of an installed engine the stored shortcut
\* modifier mask contains only the four primary modifier bits.
C4_StoredMaskPrimaryOnly ==
    g_context.allocated => Normalized(g_context.shortcutFlags) = g_context.shortcutFlags

\* an installed engine whose stored mask holds the caps-lock bit
C4_ForeignBitStored ==
    /\ g_context.allocated
    /\ HasBit(g_context.shortcutFlags, kCGEventFlagMaskAlphaShift)

\* C5: suppression.  With blocking true, recording false and the event not
\* an emergency-unlock match, a key-down, key-up, modifier-change or
\* system-defined event is suppressed and an event of any other category
\* is passed through.
C5_Suppression ==
    (/\ Delivered
     /\ last.pre.enabled /\ ~last.pre.recording
     /\ ~(last.pre.shortcutEnabled /\ MatchesStored))
        => last.ret =
              IF last.event.type \in {kCGEventKeyDown, kCGEventKeyUp,
                                      kCGEventFlagsChanged, kCGEventSystemDefined}
                  THEN NULL
                  ELSE "event"

C5_Witness ==
    /\ Delivered
    /\ last.pre.enabled /\ ~last.pre.recording
    /\ ~(last.pre.shortcutEnabled /\ MatchesStored)
    /\ last.event.type = kCGEventSystemDefined
    /\ last.ret = NULL

\* C6: no event is suppressed while blocking is disabled, whatever the
\* event's category and whatever recording, shortcutEnabled and the stored
\* shortcut are; the same holds of the build without the tray.
C6_NoSuppressionWhileDisabled ==
    /\ (Delivered /\ ~last.pre.enabled) => last.ret = "event"
    /\ \A event \in Events : keyboardCallbackBasic(event, FALSE) = "event"

C6_Witness ==
    /\ Delivered
    /\ ~last.pre.enabled /\ ~last.pre.recording
    /\ ~(last.pre.shortcutEnabled /\ MatchesStored)
    /\ last.event.type = kCGEventKeyDown
    /\ last.ret = "event"

\* C7: recording normalization.  For every key-down handled while recording
\* the stored modifier bits are exactly the intersection of the event's raw
\* flags with {Command, Shift, Option, Control} and the stored key code is
\* the event's key code, whatever other bits the raw flags hold.
C7_RecordingNormalization == Capture => StoredFromEvent

C7_Witness ==
    /\ Capture
    /\ HasBit(last.event.flags, kCGEventFlagMaskAlphaShift)
    /\ HasBit(last.event.flags, kCGEventFlagMaskShift)
    /\ g_context.shortcutFlags = kCGEventFlagMaskShift
    /\ g_context.shortcutKeyCode = last.event.keyCode

\* C8: a recording capture is never treated as a blocked keystroke.  The
\* key-down that completes a recording is passed through even when
\* blocking is true, and recording is false once the callback returns.
C8_CaptureNotBlocked ==
    Capture => /\ last.ret = "event"
               /\ ~Logged(BlockedLog)
               /\ ~g_context.recording

C8_Witness ==
    /\ Capture
    /\ last.pre.enabled
    /\ last.ret = "event"
    /\ ~g_context.recording

\* the settings record a capture hands to save_settings
CapturedSettings ==
    [shortcut_enabled |-> last.pre.shortcutEnabled,
     shortcut_flags   |-> Normalized(last.event.flags),
     shortcut_keycode |-> last.event.keyCode,
     blocking_enabled |-> last.pre.enabled]

\* the settings file holds the combination of the event
FileHoldsCapture ==
    /\ settingsFile.exists
    /\ \E i \in 1..Len(settingsFile.lines) :
          settingsFile.lines[i] =
              FileLine("shortcut_flags", Normalized(last.event.flags))
    /\ \E i \in 1..Len(settingsFile.lines) :
          settingsFile.lines[i] = FileLine("shortcut_keycode", last.event.keyCode)

\* the registered callback, if any, is invoked exactly once with the new values
CallbackInvokedOnce ==
    last.calls =
        IF last.pre.recordingCallback # NULL
            THEN <<[fn      |-> last.pre.recordingCallback,
                    flags   |-> Normalized(last.event.flags),
                    keyCode |-> last.event.keyCode]>>
            ELSE <<>>

\* C9, as stated: on every recording capture the settings are persisted
\* with the newly captured combination and the registered callback (if
\* any) is invoked exactly once with the newly stored normalized modifiers
\* and key code; without a callback the capture still completes and is
\* persisted.
C9_CapturePersisted ==
    Capture => /\ FileHoldsCapture
               /\ CallbackInvokedOnce
               /\ ~g_context.recording
               /\ StoredFromEvent

\* C9, amended: on every recording capture save_settings is called once
\* with the newly captured combination, and the settings file holds that
\* combination whenever it can be opened for writing; the registered
\* callback (if any) is invoked exactly once with the newly stored
\* normalized modifiers and key code; without a callback the capture still
\* completes and is saved in the same way.
C9_CaptureSaved ==
    Capture => /\ last.saves = <<CapturedSettings>>
               /\ fsWritable => FileHoldsCapture
               /\ CallbackInvokedOnce
               /\ ~g_context.recording
               /\ StoredFromEvent

C9_Witness ==
    /\ Capture
    /\ fsWritable
    /\ last.pre.recordingCallback = recorded_shortcut_callback
    /\ Len(last.calls) = 1
    /\ Normalized(last.event.flags) # last.pre.shortcutFlags
    /\ FileHoldsCapture

\* C10: the recording branch applies only to key-down events.  With
\* recording true, a key-up, modifier-change or system-defined event is
\* decided by the remaining branches, so with blocking true it is
\* suppressed, and recording stays true.
C10_RecordingOnlyKeyDown ==
    (/\ Delivered
     /\ last.pre.recording /\ last.pre.enabled
     /\ last.event.type \in
           {kCGEventKeyUp, kCGEventFlagsChanged, kCGEventSystemDefined})
        => /\ last.ret = NULL
           /\ g_context.recording

\* a key-up delivered while recording and blocking, and passed through
C10_PassedWhileRecording ==
    /\ Delivered
    /\ last.pre.recording /\ last.pre.enabled
    /\ last.event.type = kCGEventKeyUp
    /\ last.ret = "event"
    /\ g_context.recording

(***************************************************************************)
(* Properties of the life cycle and of the settings store.                 *)
(***************************************************************************)
\* C11: install guard.  Calling setupKeyboardEventTap while an engine is
\* installed returns AlreadyStarted and leaves the existing hook, the
\* background thread and every field of the engine state unchanged; the
\* same holds of the build without the tray.
C11_InstallGuard ==
    /\ [][(g_context.allocated /\ last'.op = "setupKeyboardEventTap")
             => /\ last'.ret = KB_ERROR_ALREADY_STARTED
                /\ UNCHANGED <<g_context, g_recording_callback, threads, taps,
                               nthreads, installResult, settingsFile>>]_vars
    /\ [](\A callocOk \in BOOLEAN, tapOk \in BOOLEAN :
             setupKeyboardEventTapBasic(TRUE, callocOk, tapOk) =
                 [ret |-> KB_ERROR_ALREADY_STARTED, installed |-> TRUE,
                  tapCreated |-> FALSE])

C11_Witness ==
    /\ last.op = "setupKeyboardEventTap"
    /\ last.ret = KB_ERROR_ALREADY_STARTED
    /\ TapLive
    /\ g_context.enabled
    /\ g_context.recording

\* C12: install returns PermissionDenied whenever the OS refuses to create
\* the event hook (CGEventTapCreate returns NULL), and then no engine
\* remains installed.  threads[t] = "returned" says that the tap creation
\* of the engine installed with thread t was refused.
C12_PermissionDenied ==
    /\ \A t \in ThreadIds :
          threads[t] = "returned"
              => /\ installResult[t] = KB_ERROR_PERMISSION_DENIED
                 /\ ~(g_context.allocated /\ g_context.thread = t)
    /\ \A installed \in BOOLEAN :
          LET r == setupKeyboardEventTapBasic(installed, TRUE, FALSE) IN
              ~installed => r.ret = KB_ERROR_PERMISSION_DENIED /\ ~r.installed

\* the tap was refused, yet install had returned success and its engine stays
C12_RefusedAfterSuccess ==
    \E t \in ThreadIds :
        /\ threads[t] = "returned"
        /\ installResult[t] = KB_SUCCESS
        /\ g_context.allocated
        /\ g_context.thread = t
        /\ g_context.eventTap = NoTap

\* C13: whenever install has returned success and teardown has not been
\* called, the hook is live (the handle is non-null and the tap receives
\* events); and a hook exists only between a successful install and
\* teardown.  g_context is allocated exactly from a successful install to
\* the next teardown.
C13_HookLiveWhileInstalled ==
    /\ g_context.allocated => TapLive
    /\ \A t \in ThreadIds :
          taps[t] = "enabled" => (g_context.allocated /\ g_context.eventTap = t)

\* install has just returned success and there is no hook
C13_InstalledWithoutHook ==
    /\ last.op = "setupKeyboardEventTap"
    /\ last.ret = KB_SUCCESS
    /\ g_context.allocated
    /\ g_context.eventTap = NoTap
    /\ \A t \in ThreadIds : taps[t] = "none"

\* the settings file says blocking_enabled=1
FileSaysBlocking ==
    /\ settingsFile.exists
    /\ \E i \in 1..Len(settingsFile.lines) :
          settingsFile.lines[i] = FileLine("blocking_enabled", 1)

\* an install call, made directly or by the launch handler, has just succeeded
JustInstalled ==
    /\ last.op \in {"setupKeyboardEventTap", "applicationDidFinishLaunching"}
    /\ last.ret = KB_SUCCESS

\* C14: restart safety.  After any sequence of setBlocking calls, events
\* and saves followed by teardown (or process exit) and a new install,
\* blocking is false immediately after the install, whatever the settings
\* file contains, blocking_enabled=1 included.
C14_RestartSafety ==
    JustInstalled => /\ g_context.allocated
                     /\ ~g_context.enabled
                     /\ ~isKeyboardBlockEnabled

\* a second install in the same process, over a file saved while blocking
C14_Witness ==
    /\ JustInstalled
    /\ nthreads = 2
    /\ FileSaysBlocking
    /\ ~g_context.enabled

\* a load_settings made right after a save_settings
LoadAfterSave ==
    /\ last.op = "load_settings"
    /\ last.saves # <<>>

\* what was loaded is what was saved, except that blocking is off
LoadedWhatWasSaved ==
    /\ last.loaded[1].shortcut_enabled = last.saves[1].shortcut_enabled
    /\ last.loaded[1].shortcut_flags = last.saves[1].shortcut_flags
    /\ last.loaded[1].shortcut_keycode = last.saves[1].shortcut_keycode
    /\ last.loaded[1].blocking_enabled = FALSE

\* C15, as stated: settings round trip.  For every settings value s,
\* save_settings(s) followed by load_settings yields shortcut_enabled,
\* shortcut_flags and shortcut_keycode equal to those of s, and
\* blocking_enabled = false even when s.blocking_enabled was true.
C15_RoundTripAlways == LoadAfterSave => LoadedWhatWasSaved

\* C15, amended: the same, for every save_settings(s) made while the
\* settings file can be opened for writing.
C15_RoundTrip == (LoadAfterSave /\ fsWritable) => LoadedWhatWasSaved

C15_Witness ==
    /\ LoadAfterSave
    /\ fsWritable
    /\ last.saves[1].blocking_enabled
    /\ last.saves[1].shortcut_flags = DEFAULT_SHORTCUT_FLAGS
    /\ last.saves[1].shortcut_keycode = UShortRange - 1
    /\ LoadedWhatWasSaved

\* the keys of the lines of the settings file
FileKeys == {settingsFile.lines[i].key : i \in 1..Len(settingsFile.lines)}

\* C16: save_settings writes only the safe shortcut fields
\* (shortcut_enabled, shortcut_flags, shortcut_keycode); the blocking
\* state is never written to the settings file.
C16_BlockingNeverWritten ==
    (last.op = "save_settings" /\ fsWritable)
        => /\ FileKeys \subseteq {"shortcut_enabled", "shortcut_flags", "shortcut_keycode"}
           /\ ~FileSaysBlocking

\* a save has just written blocking_enabled=1
C16_BlockingWritten ==
    /\ last.op = "save_settings"
    /\ fsWritable
    /\ last.saves[1].blocking_enabled
    /\ "blocking_enabled" \in FileKeys
    /\ FileSaysBlocking

KnownKeys == {"shortcut_enabled", "shortcut_flags", "shortcut_keycode", "blocking_enabled"}

HasKnownKey(line) == line.key \in KnownKeys

\* the settings file without the lines whose key is not a known one
KnownLinesOnly ==
    [settingsFile EXCEPT !.lines = SelectSeq(settingsFile.lines, HasKnownKey)]

\* C17: load_settings yields all defaults (shortcut enabled, flags
\* 1179648, key code 12, blocking disabled) when the settings file is
\* missing, and for an existing file every line whose key is not one of
\* the four known keys leaves all four fields unchanged: what is loaded is
\* what the file without those lines gives.
C17_DefaultsAndUnknownKeys ==
    last.op = "load_settings"
        => /\ ~settingsFile.exists =>
                  last.loaded[1] = [shortcut_enabled |-> TRUE,
                                    shortcut_flags   |-> 1179648,
                                    shortcut_keycode |-> 12,
                                    blocking_enabled |-> FALSE]
           /\ last.loaded[1] = load_settings(KnownLinesOnly)

\* a file of one line, whose key is unknown, has switched the shortcut off
C17_UnknownLineChangedField ==
    /\ last.op = "load_settings"
    /\ settingsFile.exists
    /\ Len(settingsFile.lines) = 1
    /\ ~HasKnownKey(settingsFile.lines[1])
    /\ last.loaded[1].shortcut_enabled = FALSE

\* C18: setBlocking idempotence.  On an installed engine with no
\* intervening event, calling enableKeyboardBlock(b) twice in a row leaves
\* the engine state and the persisted settings identical to calling it
\* once, and isKeyboardBlockEnabled() returns the argument of the most
\* recent enableKeyboardBlock call.
C18_Idempotence ==
    /\ [][(/\ last.op = "enableKeyboardBlock"
           /\ g_context.allocated
           /\ last'.op = "enableKeyboardBlock"
           /\ last'.args = last.args)
             => UNCHANGED <<g_context, g_recording_callback, settingsFile, threads,
                            taps, nthreads, statusItem, blockingSwitch, trayQueue>>]_vars
    /\ []((last.op = "enableKeyboardBlock" /\ g_context.allocated)
             => /\ isKeyboardBlockEnabled = last.args[1]
                /\ BlockSet(g_context, last.args[1]) = g_context
                /\ save_settings(sync_and_save_settings(g_context), settingsFile,
                                 fsWritable) = settingsFile)

\* enableKeyboardBlock(true) on a live engine that was not blocking, saved
C18_Witness ==
    /\ last.op = "enableKeyboardBlock"
    /\ last.args = <<TRUE>>
    /\ TapLive
    /\ isKeyboardBlockEnabled
    /\ fsWritable
    /\ FileSaysBlocking

\* a call of enableKeyboardBlock on an installed engine, made directly or by
\* the switch handler, has just returned
BlockingJustSet ==
    /\ last.op \in {"enableKeyboardBlock", "switchAction"}
    /\ g_context.allocated

\* the settings file holds exactly the four current fields of the engine
FileHoldsCurrentFields ==
    /\ settingsFile.exists
    /\ settingsFile.lines =
          <<FileLine("shortcut_enabled", BoolInt(g_context.shortcutEnabled)),
            FileLine("shortcut_flags", g_context.shortcutFlags),
            FileLine("shortcut_keycode", g_context.shortcutKeyCode),
            FileLine("blocking_enabled", BoolInt(g_context.enabled))>>

\* a block that will show the new active state waits on the main queue
ShellNotified ==
    /\ last.tray = <<last.args[1]>>
    /\ trayQueue # <<>>
    /\ trayQueue[Len(trayQueue)] = last.args[1]

\* C19 as stated: every enableKeyboardBlock(enabled) call on an installed
\* engine updates blockingEnabled, persists all four current settings
\* fields, and causes the UI shell to be notified asynchronously of the new
\* active state.
C19_SetBlockingEffects ==
    BlockingJustSet
        => /\ g_context.enabled = last.args[1]
           /\ FileHoldsCurrentFields
           /\ ShellNotified

\* C19, amended: the call updates blockingEnabled and hands all four
\* current fields to save_settings, which writes them whenever the file
\* can be opened for writing; the notification of the UI shell is
\* dispatched by the switch handler that makes the call.
C19_SetBlockingEffectsAmended ==
    BlockingJustSet
        => /\ g_context.enabled = last.args[1]
           /\ last.saves = <<sync_and_save_settings(g_context)>>
           /\ fsWritable => FileHoldsCurrentFields
           /\ last.op = "switchAction" => ShellNotified

\* the switch was turned on over a live engine: saved and queued for the shell
C19_Witness ==
    /\ last.op = "switchAction"
    /\ last.args = <<TRUE>>
    /\ TapLive
    /\ g_context.enabled
    /\ fsWritable
    /\ FileHoldsCurrentFields
    /\ ShellNotified
    /\ blockingSwitch

\* C20: when no engine is installed (before install, after a failed
\* install, or after teardown), enableKeyboardBlock, setShortcutEnabled,
\* setShortcut and startRecording change no state and write no settings
\* file, and isKeyboardBlockEnabled() and isShortcutEnabled() return false.
C20_NoEngineNoEffect ==
    /\ [][(/\ ~g_context.allocated
           /\ last'.op \in {"enableKeyboardBlock", "setShortcutEnabled",
                            "setShortcut", "startRecording"})
             => /\ UNCHANGED <<g_context, g_recording_callback, settingsFile,
                               threads, taps, nthreads, statusItem, blockingSwitch,
                               trayQueue, installResult>>
                /\ last'.saves = <<>>]_vars
    /\ [](~g_context.allocated => /\ ~isKeyboardBlockEnabled
                                  /\ ~isShortcutEnabled)

\* setShortcut called after teardown, over a file that is writable
C20_Witness ==
    /\ last.op = "setShortcut"
    /\ ~g_context.allocated
    /\ nthreads >= 1
    /\ fsWritable
    /\ last.saves = <<>>

\* setShortcut has just returned on an installed engine
ShortcutJustSet ==
    /\ last.op = "setShortcut"
    /\ g_context.allocated

\* a following getShortcut returns exactly the arguments of the call
GetReturnsWhatWasSet == getShortcut(1, 1) = <<last.args[1], last.args[2]>>

\* a following load of the settings file yields the arguments of the call
LoadYieldsWhatWasSet ==
    /\ load_settings(settingsFile).shortcut_flags = last.args[1]
    /\ load_settings(settingsFile).shortcut_keycode = last.args[2]

\* C21 as stated: setShortcut(modifiers, keyCode) on an installed engine
\* overwrites the stored combination and persists it, so that a following
\* getShortcut() returns exactly (modifiers, keyCode) and a following load
\* of the settings file yields the same combination.
C21_SetShortcutPersists ==
    ShortcutJustSet => GetReturnsWhatWasSet /\ LoadYieldsWhatWasSet

\* C21, amended: the combination is overwritten and returned by a following
\* getShortcut(); a following load yields it whenever the settings file
\* could be opened for writing.
C21_SetShortcutPersistsIfWritable ==
    ShortcutJustSet => /\ GetReturnsWhatWasSet
                       /\ last.saves = <<sync_and_save_settings(g_context)>>
                       /\ fsWritable => LoadYieldsWhatWasSet

\* a combination with the caps-lock bit was set, saved, and is loaded back
C21_Witness ==
    /\ ShortcutJustSet
    /\ fsWritable
    /\ last.args = <<PrimaryModifierMask + kCGEventFlagMaskAlphaShift,
                     DEFAULT_SHORTCUT_KEYCODE>>
    /\ GetReturnsWhatWasSet
    /\ LoadYieldsWhatWasSet

KeyDowns == {event \in Events : event.type = kCGEventKeyDown}

\* C22: startRecording is idempotent.  Calling it one or more times before
\* the next key-down leaves recording = true and every other state field
\* unchanged (a call made while recording changes nothing at all), and
\* the next key-down is captured exactly as after a single call.
C22_StartRecordingIdempotent ==
    /\ [][(g_context.allocated /\ last'.op = "startRecording")
             => /\ g_context' = [g_context EXCEPT !.recording = TRUE]
                /\ g_context.recording => UNCHANGED g_context
                /\ UNCHANGED <<g_recording_callback, settingsFile, threads, taps,
                               nthreads, statusItem, blockingSwitch, trayQueue,
                               installResult>>]_vars
    /\ []((last.op = "startRecording" /\ g_context.allocated)
             => /\ g_context.recording
                /\ \A event \in KeyDowns :
                      keyboardCallback(event, g_context) = CaptureResult(g_context, event))

\* startRecording on a live engine that is blocking
C22_Witness ==
    /\ last.op = "startRecording"
    /\ TapLive
    /\ g_context.recording
    /\ g_context.enabled

\* the callback has just captured a key-down
JustCaptured ==
    /\ last.op = "keyboardCallback"
    /\ last.pre.recording
    /\ last.event.type = kCGEventKeyDown

\* the result of a callback invocation that does not look at ctx->recording
EvaluatedResult(event, ctx) ==
    IF IsEmergencyMatch(ctx, event) THEN EmergencyResult(ctx)
    ELSE IF ~ctx.enabled THEN PassThrough(ctx)
    ELSE IF IsBlockedType(event.type) THEN BlockResult(ctx)
    ELSE PassThrough(ctx)

\* C23: recording is one-shot.  Each capture clears recording and invokes
\* the callback at most once; while recording is clear every key-down is
\* evaluated by the emergency-match and blocking branches, never captured;
\* and recording is set by startRecording only, so that a single
\* startRecording leads to at most one capture.
C23_OneShot ==
    /\ [](JustCaptured => /\ ~g_context.recording
                          /\ Len(last.calls) <= 1
                          /\ Len(last.saves) = 1)
    /\ [][(/\ last'.op = "keyboardCallback"
           /\ ~g_context.recording)
             => /\ g_context' = EvaluatedResult(last'.event, g_context).ctx
                /\ last'.ret = EvaluatedResult(last'.event, g_context).ret
                /\ last'.calls = <<>>
                /\ last'.saves = <<>>
                /\ ~g_context'.recording]_vars
    /\ [][(g_context'.allocated /\ g_context'.recording
              /\ ~(g_context.allocated /\ g_context.recording))
             => last'.op = "startRecording"]_vars

\* a key-down was captured while blocking and handed to the callback
C23_Witness ==
    /\ JustCaptured
    /\ last.pre.enabled
    /\ ~g_context.recording
    /\ Len(last.calls) = 1
    /\ g_context.shortcutFlags = 0
    /\ last.pre.shortcutFlags # 0

\* C24: setRecordingCallback holds at most one callback, last write wins.
\* A call stores its argument in g_recording_callback, which only such a
\* call changes (the launch handler makes one, with
\* recorded_shortcut_callback); an installed engine always holds the same
\* callback, whether the call was made before or after install; and a
\* capture invokes exactly that callback, or none if it is null.
C24_LastWriteWins ==
    /\ [][/\ last'.op = "setRecordingCallback"
              => g_recording_callback' = last'.args[1]
          /\ g_recording_callback' # g_recording_callback
              => \/ last'.op = "setRecordingCallback"
                 \/ /\ last'.op = "applicationDidFinishLaunching"
                    /\ g_recording_callback' = recorded_shortcut_callback]_vars
    /\ [](g_context.allocated => g_context.recordingCallback = g_recording_callback)
    /\ [](JustCaptured
             => last.calls = IF g_recording_callback = NULL THEN <<>>
                             ELSE <<[fn      |-> g_recording_callback,
                                     flags   |-> g_context.shortcutFlags,
                                     keyCode |-> g_context.shortcutKeyCode]>>)

\* a callback registered before install, over an engine installed by hand,
\* was invoked by a capture
C24_Witness ==
    /\ JustCaptured
    /\ ~statusItem
    /\ g_recording_callback = recorded_shortcut_callback
    /\ Len(last.calls) = 1
    /\ last.calls[1].fn = recorded_shortcut_callback

(***************************************************************************)
(* Properties of teardown and of the background thread.                    *)
(***************************************************************************)
\* thread t is inside CFRunLoopRun
InLoop(t) == threads[t] \in {"looping", "in_callback"}

\* C25: after teardown (cleanup_keyboard) called from the UI thread
\* returns, the event callback is never invoked again, and no callback
\* invocation that was in flight on the background thread reads or writes
\* the engine state after that state has been freed: a tap invokes the
\* callback only while the engine it was created for is installed, and the
\* body of every invocation runs on that engine's state.
C25_NoCallbackAfterTeardown ==
    /\ [][last'.op = "keyboardCallback.enter"
              => /\ g_context.allocated
                 /\ g_context.thread = last'.args[1]]_vars
    /\ []((last.op = "keyboardCallback" /\ last.args # <<>>) => last.pre.allocated)

\* the tap was live when teardown disabled it, and the invocation then in
\* flight has run its body after the context was freed
C25_InFlightAfterFree ==
    /\ last.op = "keyboardCallback"
    /\ last.args = <<1>>
    /\ ~last.pre.allocated
    /\ ~g_context.allocated
    /\ taps[1] = "disabled"

\* C26: teardown is idempotent and releases the hook exactly once.  Over
\* any sequence of install and teardown calls a released hook (with its
\* run-loop source) is never released again, a teardown call with no engine
\* installed changes nothing, and once teardown has returned no hook that
\* was created is left unreleased.
C26_ReleasedExactlyOnce ==
    /\ [][/\ \A t \in ThreadIds : taps[t] = "disabled" => taps'[t] = "disabled"
          /\ (~g_context.allocated /\ last'.op = "cleanup_keyboard")
                => UNCHANGED <<g_context, g_recording_callback, settingsFile, threads,
                               taps, nthreads, statusItem, blockingSwitch, trayQueue,
                               installResult>>]_vars
    /\ [](~g_context.allocated => \A t \in ThreadIds : taps[t] # "enabled")

\* two engines were installed and torn down: the hook of the second was
\* released, the hook of the first, created after its teardown, never was
C26_HookNeverReleased ==
    /\ last.op = "cleanup_keyboard"
    /\ ~g_context.allocated
    /\ nthreads = 2
    /\ taps[1] = "enabled"
    /\ taps[2] = "disabled"

\* C27: after teardown the run-loop source is removed from the background
\* thread's loop, the background loop exits and the background thread
\* eventually terminates.  taps[t] = "disabled" says that the engine of
\* thread t has been torn down after the thread had entered its loop.
C27_ThreadTerminates ==
    \A t \in ThreadIds : (taps[t] = "disabled") ~> (threads[t] = "returned")

\* teardown has returned and the thread is still inside CFRunLoopRun
C27_StillLooping ==
    /\ last.op = "cleanup_keyboard"
    /\ ~g_context.allocated
    /\ taps[1] = "disabled"
    /\ threads[1] = "looping"

\* C28: at every moment at most one background hook thread is running its
\* loop, and exactly one exists for the lifetime of an installed engine,
\* over any sequence of install, failed install, teardown and re-install.
C28_OneThread ==
    /\ Cardinality({t \in ThreadIds : InLoop(t)}) <= 1
    /\ g_context.allocated
          => {t \in ThreadIds : threads[t] \in {"created", "looping", "in_callback"}}
                 = {g_context.thread}

\* the thread of an engine torn down earlier is still in its loop next to
\* the thread of the engine installed since
C28_TwoThreadsLooping ==
    /\ g_context.allocated
    /\ g_context.thread = 2
    /\ InLoop(1)
    /\ InLoop(2)
    /\ taps[1] = "disabled"
    /\ taps[2] = "enabled"

(***************************************************************************)
(* Properties of the emergency unlock's side effects.                      *)
(***************************************************************************)
\* C29: every change of blockingEnabled is persisted inline by the thread
\* that made it, the emergency-unlock auto-disable performed by the
\* callback included: the step that changes the blocking flag of the
\* installed engine calls save_settings with the current settings, and
\* the file, when it can be written, holds them after the step.
C29_ChangePersisted ==
    [][(/\ g_context.allocated
        /\ g_context'.allocated
        /\ g_context'.enabled # g_context.enabled)
          => /\ last'.saves = <<sync_and_save_settings(g_context')>>
             /\ fsWritable =>
                   settingsFile' =
                       [exists |-> TRUE,
                        lines  |-> SavedLines(sync_and_save_settings(g_context'))]]_vars

\* an emergency unlock has switched blocking off and saved nothing: the
\* file, which can be written, still holds blocking_enabled=1
C29_UnlockNotPersisted ==
    /\ last.op = "keyboardCallback"
    /\ last.pre.enabled
    /\ ~g_context.enabled
    /\ last.log = <<"Emergency shortcut detected. Disabling block.">>
    /\ last.saves = <<>>
    /\ fsWritable
    /\ FileSaysBlocking

\* the callback has just taken its emergency branch
JustUnlocked ==
    /\ last.op = "keyboardCallback"
    /\ last.log = <<"Emergency shortcut detected. Disabling block.">>

\* C30: every emergency unlock notifies the UI shell of the disabled state
\* by an asynchronous hand-off to the UI thread: the unlock calls
\* update_tray_state(false), which, the shell having its status item,
\* leaves a block at the end of the main queue; and the main queue comes to
\* run a block that leaves the blocking switch showing off, unless the
\* switch is clicked later or the process ends first.
C30_UnlockNotifiesShell ==
    /\ [](JustUnlocked => /\ ~g_context.enabled
                          /\ last.tray = <<FALSE>>
                          /\ statusItem => /\ trayQueue # <<>>
                                           /\ trayQueue[Len(trayQueue)] = FALSE)
    /\ (JustUnlocked /\ statusItem)
           ~> \/ last.op = "update_tray_state.block" /\ ~blockingSwitch
              \/ last.op = "switchAction"
              \/ ~running

\* the unlock of an engine that was blocking, the switch still showing on
C30_Witness ==
    /\ JustUnlocked
    /\ last.pre.enabled
    /\ statusItem
    /\ blockingSwitch
    /\ trayQueue = <<FALSE>>

(***************************************************************************)
(* Further properties of keyboardCallback.                                 *)
(***************************************************************************)
\* C34: when shortcutEnabled is false the emergency combination is not
\* matched.  With blockingEnabled = true and recording = false, a key-down
\* equal to the stored shortcut is suppressed like any other key and
\* blockingEnabled stays true.
C34_DisabledShortcutNotMatched ==
    (/\ Delivered
     /\ ~last.pre.shortcutEnabled /\ last.pre.enabled /\ ~last.pre.recording
     /\ MatchesStored)
        => /\ last.ret = NULL
           /\ g_context.enabled
           /\ g_context = last.pre
           /\ last.tray = <<>>
           /\ ~Logged(EmergencyLog)

\* the stored combination, pressed with the shortcut switched off, was dropped
C34_Witness ==
    /\ Delivered
    /\ ~last.pre.shortcutEnabled /\ last.pre.enabled /\ ~last.pre.recording
    /\ MatchesStored
    /\ last.ret = NULL
    /\ Logged(BlockedLog)

\* C40: frame of the callback.  An emergency unlock changes only
\* blockingEnabled (shortcutEnabled, recording, the stored shortcut and the
\* callback are unchanged); a recording capture changes only recording and
\* the stored shortcut; every other event, passed or suppressed, changes
\* no engine state field.
C40_CallbackFrame ==
    Delivered =>
        IF Logged(EmergencyLog)
            THEN g_context = [last.pre EXCEPT !.enabled = FALSE]
        ELSE IF last.pre.recording /\ last.event.type = kCGEventKeyDown
            THEN g_context = [last.pre EXCEPT
                                 !.recording       = FALSE,
                                 !.shortcutFlags   = g_context.shortcutFlags,
                                 !.shortcutKeyCode = g_context.shortcutKeyCode]
        ELSE g_context = last.pre

\* an unlock of a blocking engine that holds a callback: only blocking changed
C40_Witness ==
    /\ Delivered
    /\ Logged(EmergencyLog)
    /\ last.pre.enabled
    /\ last.pre.recordingCallback # NULL
    /\ g_context # last.pre
    /\ g_context = [last.pre EXCEPT !.enabled = FALSE]

(***************************************************************************)
(* Properties of failing settings I/O and of start-up.                     *)
(***************************************************************************)
\* C33: settings I/O failure is never fatal and never changes engine
\* state.  When the settings file cannot be opened for writing,
\* enableKeyboardBlock, setShortcutEnabled, setShortcut and a recording
\* capture still apply their in-memory state change and return normally,
\* the process running on and the file left as it was; when the file
\* cannot be opened for reading, install proceeds with the defaults.
C33_SettingsFailureNotFatal ==
    /\ [][~fsWritable => settingsFile' = settingsFile]_vars
    /\ []((~fsWritable /\ g_context.allocated)
            => /\ running
               /\ last.op = "enableKeyboardBlock"
                     => g_context.enabled = last.args[1] /\ last.ret = "void"
               /\ last.op = "setShortcutEnabled"
                     => g_context.shortcutEnabled = last.args[1] /\ last.ret = "void"
               /\ last.op = "setShortcut"
                     => /\ g_context.shortcutFlags = last.args[1]
                        /\ g_context.shortcutKeyCode = last.args[2]
                        /\ last.ret = "void"
               /\ JustCaptured
                     => /\ ~g_context.recording
                        /\ g_context.shortcutFlags = Normalized(last.event.flags)
                        /\ g_context.shortcutKeyCode = last.event.keyCode
                        /\ last.ret = "event")
    /\ []((JustInstalled /\ ~settingsFile.exists)
            => /\ g_context.allocated
               /\ sync_and_save_settings(g_context) =
                      [shortcut_enabled |-> TRUE, shortcut_flags |-> 1179648,
                       shortcut_keycode |-> 12, blocking_enabled |-> FALSE])

\* setShortcut on a live engine whose settings file can be neither read nor
\* written: the combination is stored, no file appears
C33_Witness ==
    /\ last.op = "setShortcut"
    /\ TapLive
    /\ ~fsWritable
    /\ ~settingsFile.exists
    /\ last.args[1] # 1179648
    /\ g_context.shortcutFlags = last.args[1]

\* C32: hook-installation failure is fatal to startup.  Whenever install
\* returns anything other than success the process surfaces the condition
\* and terminates without building the menu UI (exit code 1 in the program
\* that installs from main); and the application never runs its UI loop
\* without a live hook: while the menu exists and the process runs, the
\* engine is installed and its thread has a hook or is about to create it.
C32_InstallFailureFatal ==
    /\ (last.op = "applicationDidFinishLaunching" /\ last.ret # KB_SUCCESS)
          => ~running /\ ~statusItem
    /\ \A callocOk \in BOOLEAN, tapOk \in BOOLEAN :
          LET result == setupKeyboardEventTapBasic(FALSE, callocOk, tapOk).ret IN
          (main(result) = 1) <=> (result # KB_SUCCESS)
    /\ (statusItem /\ running)
          => /\ g_context.allocated
             /\ threads[g_context.thread] \in {"created", "looping"}

\* the menu is up and the process runs, but the hook was refused: the
\* thread has returned without a tap
C32_UIWithoutHook ==
    /\ statusItem
    /\ running
    /\ g_context.allocated
    /\ threads[g_context.thread] = "returned"
    /\ taps[g_context.thread] = "none"
    /\ g_context.eventTap = NoTap

(***************************************************************************)
(* Properties of the two threads running against each other.               *)
(***************************************************************************)
\* C38: no hook outlives teardown.  For every interleaving of the
\* background thread's start-up with teardown on the UI thread: once
\* teardown has returned and every background thread has finished its
\* start-up steps, no event tap is left enabled; and a background thread
\* writes its hook handle only into the state of the engine that is
\* installed and that created it, never into freed state.
C38_NoHookOutlivesTeardown ==
    /\ []((/\ ~g_context.allocated
           /\ \A t \in ThreadIds : threads[t] # "created")
              => \A t \in ThreadIds : taps[t] # "enabled")
    /\ [][(last'.op = "keyboard_thread_func" /\ threads'[last'.args[1]] = "looping")
              => /\ g_context.allocated
                 /\ g_context.thread = last'.args[1]]_vars

\* teardown returned before the thread ran; the thread has then created
\* and enabled its hook and stored the handle through its stale argument
C38_HookCreatedAfterTeardown ==
    /\ last.op = "keyboard_thread_func"
    /\ last.args = <<1>>
    /\ threads[1] = "looping"
    /\ taps[1] = "enabled"
    /\ ~g_context.allocated
    /\ nthreads = 1

\* C35: the displayed blocking switch converges to the engine state.  For
\* every interleaving of a toggle on the UI thread (the store of the
\* blocking flag, then its tray notification) with an emergency unlock on
\* the background thread (the flag cleared, then its tray notification):
\* once the handler has returned and every queued notification has been
\* delivered, the state of the switch equals the blocking flag.
C35_SwitchConverges ==
    (/\ running
     /\ statusItem
     /\ g_context.allocated
     /\ ui = NoUi
     /\ trayQueue = <<>>)
        => blockingSwitch = g_context.enabled

\* the unlock fell between the handler's store and its notification, the
\* handler's block was queued behind the callback's, and both have run:
\* the switch is on and the engine does not block
C35_SwitchOnWhileUnblocked ==
    /\ running
    /\ statusItem
    /\ g_context.allocated
    /\ ui = NoUi
    /\ trayQueue = <<>>
    /\ last.op = "update_tray_state.block"
    /\ blockingSwitch
    /\ ~g_context.enabled

\* C36: the persisted shortcut never goes stale.  For every interleaving
\* of a persisting operation on the UI thread with a recording capture on
\* the background thread: once both have completed, and the file can be
\* written, shortcut_flags, shortcut_keycode and shortcut_enabled as read
\* back from the settings file equal the engine's fields.
C36_PersistedShortcutCurrent ==
    (/\ running
     /\ g_context.allocated
     /\ ui = NoUi
     /\ fsWritable)
        => LET s == load_settings(settingsFile) IN
           /\ s.shortcut_flags = g_context.shortcutFlags
           /\ s.shortcut_keycode = g_context.shortcutKeyCode
           /\ s.shortcut_enabled = g_context.shortcutEnabled

\* the handler's write has just put back the key code that was stored
\* when it took its copy; the engine holds the one captured since
C36_StaleShortcutWritten ==
    /\ running
    /\ g_context.allocated
    /\ fsWritable
    /\ last.op = "save_settings"
    /\ last.saves[1].shortcut_keycode # g_context.shortcutKeyCode
    /\ load_settings(settingsFile).shortcut_keycode = last.saves[1].shortcut_keycode
    /\ ~g_context.recording

\* C37: the emergency match never uses a torn combination.  For every
\* interleaving of setShortcut on the UI thread with the callback on the
\* background thread: the (modifiers, key code) pair against which the
\* callback compares a key-down is a pair that was stored together, the
\* one held when the setShortcut call in progress began or the one that
\* call was given, never the modifiers of one and the key code of the
\* other.
C37_NoTornCombination ==
    (/\ Delivered
     /\ last.event.type = kCGEventKeyDown
     /\ last.pre.shortcutEnabled
     /\ ~last.pre.recording
     /\ ui.op = "setShortcut")
        => ShortcutOf(last.pre) \in {ui.was, <<ui.args[1], ui.args[2] % UShortRange>>}

\* the callback ran between the two stores of setShortcut and unlocked on
\* the new modifiers with the old key code
C37_UnlockedOnTornCombination ==
    /\ Delivered
    /\ Logged(EmergencyLog)
    /\ ui.op = "setShortcut"
    /\ ui.pc = "shortcutKeyCode"
    /\ ui.was[1] # ui.args[1]
    /\ ui.was[2] # ui.args[2]
    /\ ShortcutOf(last.pre) = <<ui.args[1], ui.was[2]>>

(***************************************************************************)
(* Properties of recording from the menu.                                  *)
(***************************************************************************)
\* C39: recording eventually completes.  After the record action of the UI
\* (the button disabled, startRecording called) on an engine whose install
\* returned success, if key-downs keep occurring then eventually recording
\* is false, the callback's hand-off has been performed on the UI thread
\* and the record button is enabled again.
C39_RecordingCompletes ==
    (/\ last.op = "recordShortcutAction"
     /\ g_context.allocated
     /\ installResult[g_context.thread] = KB_SUCCESS)
        ~> (/\ last.op = "updateShortcutButton"
            /\ ~g_context.recording
            /\ recordButton = "enabled")

\* install returned success, the thread's tap was refused, and the record
\* button has been clicked: no key-down reaches the callback
C39_RecordingStuck ==
    /\ last.op = "recordShortcutAction"
    /\ g_context.allocated
    /\ installResult[g_context.thread] = KB_SUCCESS
    /\ threads[g_context.thread] = "returned"
    /\ g_context.eventTap = NoTap
    /\ g_context.recording
    /\ recordButton = "disabled"

\* the engine accessors the UI handler just observed has called
EngineReads ==
    {i \in 1..Len(last.calls) :
        last.calls[i].fn \in {"getShortcut", "isKeyboardBlockEnabled", "isShortcutEnabled"}}

\* C31: the UI thread never reads engine state that the callback mutates
\* (the blocking flag, recording, the shortcut's modifiers and key code)
\* directly from shared memory; every value the UI uses for those fields
\* reaches it through an explicit asynchronous hand-off from the background
\* thread.  The handler that the hand-off runs on the UI thread calls no
\* accessor of the engine.
C31_NoDirectRead == (last.op = "updateShortcutButton") => EngineReads = {}

\* the hand-off has been performed after a capture: the handler has read
\* the captured combination out of the installed context with getShortcut
C31_TitleReadFromEngine ==
    /\ last.op = "updateShortcutButton"
    /\ last.pre.allocated
    /\ last.pre.thread = 1
    /\ threads[1] = "looping"
    /\ EngineReads = {1}
    /\ <<last.calls[1].flags, last.calls[1].keyCode>> = ShortcutOf(last.pre)
    /\ last.args = ShortcutOf(g_context)
    /\ ShortcutOf(g_context) = <<0, 0>>
    /\ recordButton = "enabled"

====
